---- MODULE Spec2Model ----
(***************************************************************************)
(* Workflow execution engine of nanoflow-app: graph validation, the        *)
(* topological scheduler, the node cache and the run controller            *)
(* (src/services/workflowEngine.ts), driven by the canvas handlers          *)
(* (src/unnamed/part_001, the WorkflowCanvas component).                    *)
(***************************************************************************)
EXTENDS Integers, Sequences, FiniteSets, TLC

VARIABLES
    nodes,            \* WorkflowCanvas state `nodes` (useState)
    connections,      \* WorkflowCanvas state `connections` (useState)
    isExecuting,      \* WorkflowCanvas state `isExecuting`
    executionResult,  \* WorkflowCanvas state `executionResult`
    cacheEnabled,     \* WorkflowCanvas state `cacheEnabled`
    engine,           \* the WorkflowEngine instance of the run in flight
    cache,            \* nodeCache.cache : node id -> CacheEntry (or NoEntry)
    backend,          \* the generation backend: the calls in flight
    trace,            \* observations of the current run (update callback, cache reads/writes)
    before,           \* observations kept from the moment a run was requested
    validation,       \* result of the last validate() applied in isolation
    execOrder,        \* result of the last getExecutionOrder() applied in isolation
    editor,           \* WorkflowCanvas state of the graph editor (pendingConnection, selection)
    probe             \* a function of the engine applied in isolation: its arguments and result

vars == <<nodes, connections, isExecuting, executionResult, cacheEnabled,
          engine, cache, backend, trace, before, validation, execOrder, editor, probe>>

-----------------------------------------------------------------------------
(* Bounds of the model *)

MaxGraphNodes == 3   \* nodes of a graph handed to validate / getExecutionOrder alone
MaxGraphConns == 3   \* connections of such a graph
MaxNodes == 3        \* nodes on the canvas when workflows are run
MaxRuns == 2         \* runs requested on one canvas
MaxEditNodes == 2    \* nodes on the canvas when the user also edits literals
MaxEdits == 1        \* literal edits made on one canvas
MaxValidateNodes == 3   \* nodes of a canvas of mixed kinds handed to validate
MaxSets == 52   \* NodeCache.set calls of one session (MAX_CACHE_SIZE is 50)
MaxResets == 1   \* of which for a node id already cached
MaxTies == 1   \* of which within the same millisecond as the call before
MaxIds == 4   \* ids generateId() hands out to nodes and connections in the editor
MaxPrompts == 5   \* non-blank prompts of a batch
MaxParallel == 3   \* parallelLimit of a batch-generate node
MaxVars == 2         \* variables declared for a template handed to expandVariables
MaxValues == 2       \* values in the list of one variable
MaxBelow == 2         \* how far below zero the index of the chunk loop is followed
MaxImages == 3       \* images in the array a compare-grid node receives

-----------------------------------------------------------------------------
(* Small helpers *)

Range(s) == {s[i] : i \in 1..Len(s)}

Min(a, b) == IF a < b THEN a ELSE b

\* position of the first element of s satisfying Test, 0 if none (Array.prototype.find / findIndex)
FindIndex(s, Test(_)) ==
    IF \E i \in 1..Len(s) : Test(s[i])
    THEN CHOOSE i \in 1..Len(s) : Test(s[i]) /\ \A j \in 1..(i - 1) : ~Test(s[j])
    ELSE 0

RECURSIVE SeqsUpTo(_, _)
\* all sequences over S of length at most n
SeqsUpTo(S, n) ==
    IF n = 0 THEN {<<>>}
    ELSE LET shorter == SeqsUpTo(S, n - 1)
         IN  shorter \cup {Append(q, x) : q \in {r \in shorter : Len(r) = n - 1}, x \in S}

-----------------------------------------------------------------------------
(* Graph model: src/types.ts.  Node ids are the numbers 1, 2, ... standing   *)
(* for the strings generateId() returns.                                    *)

\* NodeConnection
Conn(cid, src, srcPort, tgt, tgtPort) ==
    [id |-> cid, sourceNodeId |-> src, sourcePortId |-> srcPort,
     targetNodeId |-> tgt, targetPortId |-> tgtPort]

NodeIds(ns) == {ns[i].id : i \in 1..Len(ns)}

-----------------------------------------------------------------------------
(* JavaScript values.  A value is a record: t is its kind, s the characters *)
(* of a string (or the JSON text of an immutable array/object literal of a  *)
(* configuration), a the entries of an array or bundle.                     *)

\* the characters of the string literals the model uses
Chars(str) ==
    CASE str = "type" -> <<"t", "y", "p", "e">>
      [] str = "config" -> <<"c", "o", "n", "f", "i", "g">>
      [] str = "inputs" -> <<"i", "n", "p", "u", "t", "s">>
      [] str = "null" -> <<"n", "u", "l", "l">>
      [] str = "true" -> <<"t", "r", "u", "e">>
      [] str = "false" -> <<"f", "a", "l", "s", "e">>
      [] str = "IMAGE_INPUT" -> <<"I", "M", "A", "G", "E", "_", "I", "N", "P", "U", "T">>
      [] str = "TEXT_INPUT" -> <<"T", "E", "X", "T", "_", "I", "N", "P", "U", "T">>
      [] str = "GENERATE" -> <<"G", "E", "N", "E", "R", "A", "T", "E">>
      [] str = "OUTPUT" -> <<"O", "U", "T", "P", "U", "T">>
      [] str = "TEXT_ARRAY_INPUT" -> <<"T", "E", "X", "T", "_", "A", "R", "R", "A", "Y", "_", "I", "N", "P", "U", "T">>
      [] str = "BATCH_GENERATE" -> <<"B", "A", "T", "C", "H", "_", "G", "E", "N", "E", "R", "A", "T", "E">>
      [] str = "prompts" -> <<"p", "r", "o", "m", "p", "t", "s">>
      [] str = "promptText" -> <<"p", "r", "o", "m", "p", "t", "T", "e", "x", "t">>
      [] str = "useVariables" -> <<"u", "s", "e", "V", "a", "r", "i", "a", "b", "l", "e", "s">>
      [] str = "variables" -> <<"v", "a", "r", "i", "a", "b", "l", "e", "s">>
      [] str = "parallelLimit" -> <<"p", "a", "r", "a", "l", "l", "e", "l", "L", "i", "m", "i", "t">>
      [] str = "c" -> <<"c">>
      [] str = "s" -> <<"s">>
      [] str = "1" -> <<"1">>
      [] str = "imageData" -> <<"i", "m", "a", "g", "e", "D", "a", "t", "a">>
      [] str = "text" -> <<"t", "e", "x", "t">>
      [] str = "aspectRatio" -> <<"a", "s", "p", "e", "c", "t", "R", "a", "t", "i", "o">>
      [] str = "quality" -> <<"q", "u", "a", "l", "i", "t", "y">>
      [] str = "prompt" -> <<"p", "r", "o", "m", "p", "t">>
      [] str = "sweepEnabled" -> <<"s", "w", "e", "e", "p", "E", "n", "a", "b", "l", "e", "d">>
      [] str = "sweepAspectRatios" -> <<"s", "w", "e", "e", "p", "A", "s", "p", "e", "c", "t", "R", "a", "t", "i", "o", "s">>
      [] str = "sweepQualities" -> <<"s", "w", "e", "e", "p", "Q", "u", "a", "l", "i", "t", "i", "e", "s">>
      [] str = "sweepVariables" -> <<"s", "w", "e", "e", "p", "V", "a", "r", "i", "a", "b", "l", "e", "s">>
      [] str = "_cached" -> <<"_", "c", "a", "c", "h", "e", "d">>
      [] str = "1:1" -> <<"1", ":", "1">>
      [] str = "2K" -> <<"2", "K">>
      [] str = "[\"1:1\"]" -> <<"[", "\"", "1", ":", "1", "\"", "]">>
      [] str = "[\"2K\"]" -> <<"[", "\"", "2", "K", "\"", "]">>
      [] str = "{}" -> <<"{", "}">>
      [] str = "in-" -> <<"i", "n", "-">>
      [] str = "out-" -> <<"o", "u", "t", "-">>
      [] str = "" -> <<>>
      [] str = "a" -> <<"a">>
      [] str = "b" -> <<"b">>
      [] str = " " -> <<" ">>
      [] str = "data:i" -> <<"d", "a", "t", "a", ":", "i">>
      [] str = "data:j" -> <<"d", "a", "t", "a", ":", "j">>

Digit(i) == <<"0", "1", "2", "3", "4", "5", "6", "7", "8", "9">>[i + 1]

Undefined == [t |-> "undefined", s |-> <<>>, a |-> <<>>]
Null      == [t |-> "null", s |-> <<>>, a |-> <<>>]
True      == [t |-> "true", s |-> <<>>, a |-> <<>>]
False     == [t |-> "false", s |-> <<>>, a |-> <<>>]
Str(cs)   == [t |-> "string", s |-> cs, a |-> <<>>]
\* an array or object literal that is only ever serialized, given by its JSON text
Literal(cs) == [t |-> "literal", s |-> cs, a |-> <<>>]
\* an array, given by its elements
Arr(vs)   == [t |-> "array", s |-> <<>>, a |-> vs]
\* an object, given by its entries [k, v] in property order
Obj(es)   == [t |-> "object", s |-> <<>>, a |-> es]
\* a small integer, given by its decimal text
Num(n)    == [t |-> "number", s |-> (IF n < 0 THEN <<"-", Digit(-n)>> ELSE <<Digit(n)>>), a |-> <<>>]

\* the integer a number value stands for
NumberOf(v) ==
    LET d == v.s[Len(v.s)]
        m == CHOOSE i \in 0..9 : Digit(i) = d
    IN  IF v.s[1] = "-" THEN 0 - m ELSE m

\* ToBoolean
Truthy(v) == /\ v.t \notin {"undefined", "null", "false"}
             /\ ~(v.t = "string" /\ v.s = <<>>)
             /\ ~(v.t = "number" /\ v.s = <<"0">>)

\* a || b
OrElse(a, b) == IF Truthy(a) THEN a ELSE b

Whitespace == {" "}

RECURSIVE TrimStart(_)
TrimStart(cs) == IF cs # <<>> /\ Head(cs) \in Whitespace THEN TrimStart(Tail(cs)) ELSE cs

RECURSIVE TrimEnd(_)
TrimEnd(cs) ==
    IF cs # <<>> /\ cs[Len(cs)] \in Whitespace THEN TrimEnd(SubSeq(cs, 1, Len(cs) - 1)) ELSE cs

\* String.prototype.trim
Trim(cs) == TrimEnd(TrimStart(cs))

-----------------------------------------------------------------------------
(* Configuration records: an ordered list of entries [k, v] (JavaScript      *)
(* objects keep insertion order, which JSON.stringify follows).             *)

Entry(k, v) == [k |-> k, v |-> v]

\* config[key]
ConfigGet(config, key) ==
    LET i == FindIndex(config, LAMBDA e : e.k = key)
    IN  IF i = 0 THEN Undefined ELSE config[i].v

\* { ...config, [key]: v } : an existing key keeps its place, a new key goes last
ConfigSet(config, key, v) ==
    IF \E i \in 1..Len(config) : config[i].k = key
    THEN [i \in 1..Len(config) |-> IF config[i].k = key THEN Entry(key, v) ELSE config[i]]
    ELSE Append(config, Entry(key, v))

-----------------------------------------------------------------------------
(* NODE_DEFINITIONS and the node factory *)

NodeKinds == {"IMAGE_INPUT", "TEXT_INPUT", "TEXT_ARRAY_INPUT", "GENERATE", "BATCH_GENERATE", "OUTPUT"}

Port(name, type) == [name |-> name, type |-> type]

NODE_DEFINITIONS(type) ==
    CASE type = "IMAGE_INPUT" ->
           [inputs |-> <<>>, outputs |-> <<Port("image", "image")>>,
            defaultConfig |-> <<Entry("imageData", Null)>>]
      [] type = "TEXT_INPUT" ->
           [inputs |-> <<>>, outputs |-> <<Port("text", "text")>>,
            defaultConfig |-> <<Entry("text", Str(<<>>))>>]
      [] type = "GENERATE" ->
           [inputs |-> <<Port("prompt", "text"), Port("reference", "image")>>,
            outputs |-> <<Port("image", "image")>>,
            defaultConfig |-> <<Entry("aspectRatio", Str(Chars("1:1"))),
                                Entry("quality", Str(Chars("2K"))),
                                Entry("prompt", Str(<<>>)),
                                Entry("sweepEnabled", False),
                                Entry("sweepAspectRatios", Literal(Chars("[\"1:1\"]"))),
                                Entry("sweepQualities", Literal(Chars("[\"2K\"]"))),
                                Entry("sweepVariables", Literal(Chars("{}")))>>]
      [] type = "OUTPUT" ->
           [inputs |-> <<Port("image", "image")>>, outputs |-> <<>>,
            defaultConfig |-> <<>>]
      [] type = "TEXT_ARRAY_INPUT" ->
           [inputs |-> <<>>, outputs |-> <<Port("prompts", "textArray")>>,
            defaultConfig |-> <<Entry("prompts", Arr(<<Str(<<>>)>>))>>]
      [] type = "BATCH_GENERATE" ->
           [inputs |-> <<Port("prompts", "textArray")>>,
            outputs |-> <<Port("images", "imageArray")>>,
            defaultConfig |-> <<Entry("prompts", Arr(<<>>)),
                                Entry("promptText", Str(<<>>)),
                                Entry("useVariables", False),
                                Entry("variables", Obj(<<>>)),
                                Entry("aspectRatio", Str(Chars("1:1"))),
                                Entry("quality", Str(Chars("2K"))),
                                Entry("parallelLimit", Num(3))>>]
      [] type = "ANALYZE" ->
           [inputs |-> <<Port("image", "image")>>,
            outputs |-> <<Port("palette", "palette"), Port("keywords", "text"),
                          Port("description", "text")>>,
            defaultConfig |-> <<>>]
      [] type = "COMPARE_GRID" ->
           [inputs |-> <<Port("images", "imageArray")>>,
            outputs |-> <<Port("selected", "image")>>,
            defaultConfig |-> <<Entry("selectedIndex", Null),
                                Entry("gridColumns", Num(2)),
                                Entry("showLabels", True)>>]

\* a port id `in-${generateId()}-${i}` / `out-${generateId()}-${i}`
PortId(dir, rnd, idx) == [dir |-> dir, rnd |-> rnd, idx |-> idx]

\* createNode; position and size play no part in execution and are left out
createNode(id, type) ==
    LET def == NODE_DEFINITIONS(type) IN
    [id      |-> id,
     type    |-> type,
     inputs  |-> [i \in 1..Len(def.inputs) |->
                    [id |-> PortId("in", id, i - 1), name |-> def.inputs[i].name,
                     type |-> def.inputs[i].type]],
     outputs |-> [i \in 1..Len(def.outputs) |->
                    [id |-> PortId("out", id, i - 1), name |-> def.outputs[i].name,
                     type |-> def.outputs[i].type]],
     config  |-> def.defaultConfig,
     status  |-> "idle",
     result  |-> Undefined,
     error   |-> <<>>]          \* no error message: the empty tuple

-----------------------------------------------------------------------------
(* WorkflowEngine.getNodeInputs.  A Map is an ordered list of entries.      *)

MapHas(m, key) == \E i \in 1..Len(m) : m[i].k = key

\* Map.get
MapGet(m, key) ==
    LET i == FindIndex(m, LAMBDA e : e.k = key)
    IN  IF i = 0 THEN Undefined ELSE m[i].v

\* Map.set: an existing key keeps its place, a new key goes last
MapSet(m, key, v) ==
    IF MapHas(m, key)
    THEN [i \in 1..Len(m) |-> IF m[i].k = key THEN Entry(key, v) ELSE m[i]]
    ELSE Append(m, Entry(key, v))

\* mutant: the raw result of the source node, bundle or not
resolvePortRaw(sourceResult, portName) == sourceResult

\* the value a port receives from the result of the node feeding it
resolvePort(sourceResult, portName) ==
    IF sourceResult.t = "object" /\ MapHas(sourceResult.a, portName)
    THEN MapGet(sourceResult.a, portName)
    ELSE sourceResult

RECURSIVE getNodeInputsFrom(_, _, _, _)
\* the loop over node.inputs, from port i
getNodeInputsFrom(node, conns, nodeResults, i) ==
    IF i > Len(node.inputs) THEN <<>>
    ELSE LET port == node.inputs[i]
             rest == getNodeInputsFrom(node, conns, nodeResults, i + 1)
             c    == FindIndex(conns, LAMBDA x : x.targetNodeId = node.id /\ x.targetPortId = port.id)
         IN  IF c # 0 /\ MapGet(nodeResults, conns[c].sourceNodeId).t # "undefined"
             THEN <<Entry(port.id, resolvePort(MapGet(nodeResults, conns[c].sourceNodeId), port.name))>>
                  \o rest
             ELSE rest

getNodeInputs(node, conns, nodeResults) == getNodeInputsFrom(node, conns, nodeResults, 1)

\* inputs.get(node.inputs[i]?.id), i counted from 0
InputAt(node, inputs, i) ==
    IF i + 1 <= Len(node.inputs) THEN MapGet(inputs, node.inputs[i + 1].id) ELSE Undefined

-----------------------------------------------------------------------------
(* NodeCache.hashInputs: btoa(JSON.stringify({type, config, inputs})).slice(0, 32) *)

Quote == <<"\"">>

RECURSIVE JoinChars(_, _)
\* the members of an object or array, separated by commas
JoinChars(parts, i) ==
    IF i > Len(parts) THEN <<>>
    ELSE parts[i] \o (IF i < Len(parts) THEN <<",">> ELSE <<>>) \o JoinChars(parts, i + 1)

PortIdChars(pid) == Chars(IF pid.dir = "in" THEN "in-" ELSE "out-")
                    \o <<"n", Digit(pid.rnd)>> \o <<"-", Digit(pid.idx)>>

RECURSIVE stringifyValue(_)
\* JSON.stringify of a value (undefined has no JSON text; object members holding it are dropped)
stringifyValue(v) ==
    CASE v.t = "string"  -> Quote \o v.s \o Quote
      [] v.t = "null"    -> Chars("null")
      [] v.t = "true"    -> Chars("true")
      [] v.t = "false"   -> Chars("false")
      [] v.t = "literal" -> v.s
      [] v.t = "number"  -> v.s
      [] v.t = "array"   ->
           <<"[">> \o JoinChars([i \in 1..Len(v.a) |-> stringifyValue(v.a[i])], 1) \o <<"]">>
      [] v.t = "object"  ->
           LET kept == SelectSeq(v.a, LAMBDA e : e.v.t # "undefined")
           IN  <<"{">>
               \o JoinChars([i \in 1..Len(kept) |->
                     Quote \o Chars(kept[i].k) \o Quote \o <<":">> \o stringifyValue(kept[i].v)], 1)
               \o <<"}">>

\* JSON.stringify of an object given as its ordered entries; KeyChars spells a key
stringifyObject(entries, KeyChars(_)) ==
    LET kept == SelectSeq(entries, LAMBDA e : e.v.t # "undefined")
    IN  <<"{">>
        \o JoinChars([i \in 1..Len(kept) |->
                        Quote \o KeyChars(kept[i].k) \o Quote \o <<":">> \o stringifyValue(kept[i].v)], 1)
        \o <<"}">>

stringifyConfig(config) == stringifyObject(config, Chars)

\* JSON.stringify(hashData)
stringifyHashData(node, inputs) ==
    <<"{">> \o Quote \o Chars("type") \o Quote \o <<":">> \o Quote \o Chars(node.type) \o Quote
    \o <<",">> \o Quote \o Chars("config") \o Quote \o <<":">> \o stringifyConfig(node.config)
    \o <<",">> \o Quote \o Chars("inputs") \o Quote \o <<":">> \o stringifyObject(inputs, PortIdChars)
    \o <<"}">>

\* characters btoa cannot encode (code points above 0xFF); each stands for one such character
NonLatin1 == {"U+2728"}

HashLength == 32

\* btoa: every 3 characters give 4 characters of output, so the output is held as
\* the list of its 4-character units, each named by the (up to 3) characters it encodes
btoa(cs) ==
    [g \in 1..((Len(cs) + 2) \div 3) |-> SubSeq(cs, 3 * g - 2, Min(3 * g, Len(cs)))]

btoaThrows(cs) == \E i \in 1..Len(cs) : cs[i] \in NonLatin1

\* .slice(0, n) of btoa's output, n a multiple of 4
sliceUnits(b, n) == SubSeq(b, 1, Min(n \div 4, Len(b)))

\* the digest without the slice: the whole encoded text (what the slice leaves out
\* is what C5 turns on)
digestUntruncated(b) == b

digest(b) == sliceUnits(b, HashLength)

\* NodeCache.hashInputs; threw is TRUE when the fallback btoa throws as well
hashInputs(node, inputs) ==
    LET full     == stringifyHashData(node, inputs)
        fallback == Chars(node.type) \o stringifyConfig(node.config)
    IN  IF ~btoaThrows(full) THEN [threw |-> FALSE, hash |-> digest(btoa(full))]
        ELSE IF ~btoaThrows(fallback) THEN [threw |-> FALSE, hash |-> digest(btoa(fallback))]
        ELSE [threw |-> TRUE, hash |-> <<>>]

BtoaErrorMessage == <<"Failed to execute 'btoa': The string to be encoded contains characters outside of the Latin1 range.">>

-----------------------------------------------------------------------------
(* NodeCache: the Map `cache` (node id -> CacheEntry, in insertion order)   *)
(* and the blob persisted under CACHE_KEY in localStorage.                  *)

MAX_CACHE_SIZE == 50

\* NodeCache.get; null both when there is no matching entry and when the entry holds null
cacheGet(c, nodeId, inputHash) ==
    IF MapHas(c.map, nodeId) /\ MapGet(c.map, nodeId).inputHash = inputHash
    THEN MapGet(c.map, nodeId).result
    ELSE Null

RECURSIVE sortByTimestampDesc(_)
\* entries.sort((a, b) => b[1].timestamp - a[1].timestamp), a stable sort
sortByTimestampDesc(entries) ==
    IF entries = <<>> THEN <<>>
    ELSE LET m == CHOOSE i \in 1..Len(entries) :
                    /\ \A j \in 1..Len(entries) : entries[j].v.timestamp <= entries[i].v.timestamp
                    /\ \A j \in 1..(i - 1) : entries[j].v.timestamp < entries[i].v.timestamp
         IN  <<entries[m]>>
             \o sortByTimestampDesc(SubSeq(entries, 1, m - 1) \o SubSeq(entries, m + 1, Len(entries)))

\* NodeCache.saveToStorage: the blob written to localStorage
saveToStorage(map) ==
    IF Len(map) > MAX_CACHE_SIZE
    THEN SubSeq(sortByTimestampDesc(map), 1, MAX_CACHE_SIZE)
    ELSE map

\* NodeCache.set, with Date.now() read as c.now
cacheSet(c, nodeId, inputHash, result, nodeType) ==
    LET map2 == MapSet(c.map, nodeId,
                       [inputHash |-> inputHash, result |-> result,
                        timestamp |-> c.now, nodeType |-> nodeType])
    IN  [c EXCEPT !.map = map2, !.stored = saveToStorage(map2)]

\* NodeCache.clear
cacheClear(c) == [c EXCEPT !.map = <<>>, !.stored = <<>>]

-----------------------------------------------------------------------------
(* expandVariables.  Strings are sequences of characters; `variables` is an  *)
(* object, held as its entries [k, v] in property order, v an array of      *)
(* strings.                                                                 *)

\* property names that are array indices: an object lists them first, in ascending order
IndexKeys == {"0", "1", "2", "3", "4", "5", "6", "7", "8", "9"}

IndexOfKey(k) == CHOOSE i \in 0..9 : Digit(i) = k

RECURSIVE sortIndexKeys(_)
sortIndexKeys(es) ==
    IF es = <<>> THEN <<>>
    ELSE LET m == CHOOSE i \in 1..Len(es) :
                    \A j \in 1..Len(es) : IndexOfKey(es[i].k) <= IndexOfKey(es[j].k)
         IN  <<es[m]>> \o sortIndexKeys(SubSeq(es, 1, m - 1) \o SubSeq(es, m + 1, Len(es)))

\* the order in which Object.keys / Object.entries list the properties of an object
\* whose properties were created in the order of es
propertyOrder(es) ==
    sortIndexKeys(SelectSeq(es, LAMBDA e : e.k \in IndexKeys))
    \o SelectSeq(es, LAMBDA e : e.k \notin IndexKeys)

\* { ...obj, [key]: v } as the entries of the new object
objectSet(es, key, v) == propertyOrder(ConfigSet(es, key, v))

\* text starts, at position i, with the characters pat
StartsAt(text, i, pat) ==
    /\ i + Len(pat) - 1 <= Len(text)
    /\ SubSeq(text, i, i + Len(pat) - 1) = pat

RECURSIVE getSubstitution(_, _, _)
\* the replacement text of String.prototype.replace for a pattern without capture
\* groups: $$ stands for $, $& for the matched text, from position i of the replacement
getSubstitution(replacement, matched, i) ==
    IF i > Len(replacement) THEN <<>>
    ELSE IF StartsAt(replacement, i, <<"$", "$">>)
         THEN <<"$">> \o getSubstitution(replacement, matched, i + 2)
    ELSE IF StartsAt(replacement, i, <<"$", "&">>)
         THEN matched \o getSubstitution(replacement, matched, i + 2)
    ELSE <<replacement[i]>> \o getSubstitution(replacement, matched, i + 1)

RECURSIVE replaceAllFrom(_, _, _, _)
\* text.replace(new RegExp(pat, 'g'), replacement) for a pattern matching the literal pat
replaceAllFrom(text, pat, replacement, i) ==
    IF i > Len(text) THEN <<>>
    ELSE IF StartsAt(text, i, pat)
         THEN getSubstitution(replacement, pat, 1)
              \o replaceAllFrom(text, pat, replacement, i + Len(pat))
    ELSE <<text[i]>> \o replaceAllFrom(text, pat, replacement, i + 1)

\* the text {{key}}
Placeholder(key) == <<"{", "{">> \o Chars(key) \o <<"}", "}">>

RECURSIVE applyCombination(_, _, _)
\* the loop over Object.entries(combo), from entry i
applyCombination(result, combo, i) ==
    IF i > Len(combo) THEN result
    ELSE applyCombination(replaceAllFrom(result, Placeholder(combo[i].k), combo[i].v, 1),
                          combo, i + 1)

RECURSIVE combinationsOf(_, _, _)
\* the loop over varNames, from name i: each combination so far is extended by each value
combinationsOf(variables, combinations, i) ==
    IF i > Len(variables) THEN combinations
    ELSE LET values == variables[i].v.a
             pairs  == [k \in 1..(Len(combinations) * Len(values)) |->
                          <<((k - 1) \div Len(values)) + 1, ((k - 1) % Len(values)) + 1>>]
             newCombinations ==
                 [k \in 1..Len(pairs) |->
                     objectSet(combinations[pairs[k][1]], variables[i].k, values[pairs[k][2]].s)]
         IN  combinationsOf(variables, newCombinations, i + 1)

\* expandVariables(template, variables)
expandVariables(template, variables) ==
    IF Len(variables) = 0 THEN <<template>>
    ELSE LET combinations == combinationsOf(variables, <<<<>>>>, 1)
         IN  [k \in 1..Len(combinations) |-> applyCombination(template, combinations[k], 1)]

-----------------------------------------------------------------------------
(* WorkflowEngine.executeNode.  The outcome of the part that runs before the *)
(* first await on the backend: a returned value, a thrown error, or a call  *)
(* to the generation backend whose result the node returns.                 *)

Return(v)     == [kind |-> "return", value |-> v, message |-> <<>>, fn |-> "", args |-> <<>>]
Throw(msg)    == [kind |-> "throw", value |-> Undefined, message |-> msg, fn |-> "", args |-> <<>>]
Call(fn, args) == [kind |-> "call", value |-> Undefined, message |-> <<>>, fn |-> fn, args |-> args]

GenerateNoPrompt ==
    <<"Generate node requires a prompt - either type one in or connect a Prompt node">>

executeGenerate(node, inputs) ==
    LET connectedPrompt == InputAt(node, inputs, 0)
        prompt    == OrElse(OrElse(connectedPrompt, ConfigGet(node.config, "prompt")), Str(<<>>))
        reference == InputAt(node, inputs, 1)
    IN  IF Trim(prompt.s) = <<>> THEN Throw(GenerateNoPrompt)
        ELSE Call("generateGenericImage",
                  <<prompt,
                    IF Truthy(reference) THEN <<reference>> ELSE <<>>,
                    OrElse(ConfigGet(node.config, "aspectRatio"), Str(Chars("1:1"))),
                    OrElse(ConfigGet(node.config, "quality"), Str(Chars("2K")))>>)

\* an outcome of the third kind: the prompts of a batch, dispatched in chunks of `limit`
Batch(prompts, limit) ==
    [kind |-> "batch", value |-> Arr(prompts), message |-> <<>>, fn |-> "generateGenericImage",
     args |-> <<Num(limit)>>]

BatchNoPrompt == <<"Batch Generate requires at least one prompt">>

NotAFunction == <<"prompts.filter is not a function">>

\* prompts.filter(p => p.trim())
nonBlank(prompts) == SelectSeq(prompts, LAMBDA p : Trim(p.s) # <<>>)

\* the TEXT_ARRAY_INPUT case
executeTextArray(node) ==
    Return(Arr(nonBlank(OrElse(ConfigGet(node.config, "prompts"), Arr(<<>>)).a)))

\* the BATCH_GENERATE case up to its chunk loop
executeBatchGenerate(node, inputs) ==
    LET connectedPrompts == InputAt(node, inputs, 0)
        configured == OrElse(OrElse(connectedPrompts, ConfigGet(node.config, "prompts")),
                             Arr(<<>>))
        promptText == ConfigGet(node.config, "promptText")
        variables  == OrElse(ConfigGet(node.config, "variables"), Obj(<<>>))
        prompts    == IF Truthy(ConfigGet(node.config, "useVariables")) /\ Truthy(promptText)
                      THEN LET ex == expandVariables(promptText.s, variables.a)
                           IN  Arr([k \in 1..Len(ex) |-> Str(ex[k])])
                      ELSE configured
        limit      == NumberOf(OrElse(ConfigGet(node.config, "parallelLimit"), Num(3)))
    IN  IF prompts.t # "array" THEN Throw(NotAFunction)
        ELSE IF nonBlank(prompts.a) = <<>> THEN Throw(BatchNoPrompt)
        ELSE Batch(nonBlank(prompts.a), limit)

AnalyzeNoImage == <<"Analyze requires an input image">>

\* the ANALYZE case up to its call of the backend
executeAnalyze(node, inputs) ==
    LET image == InputAt(node, inputs, 0)
    IN  IF ~Truthy(image) THEN Throw(AnalyzeNoImage) ELSE Call("analyzeImage", <<image>>)

\* the ANALYZE case after the call: the bundle made of the backend's analysis, whose
\* keywords arrive already joined by ', '
analyzeBundle(colors, keywords, description) ==
    Obj(<<Entry("palette", colors), Entry("keywords", keywords),
          Entry("description", description)>>)

CompareNoImages == <<"Compare Grid requires image array input">>

\* images.length of an array or a string
LengthOf(v) == IF v.t = "array" THEN Len(v.a) ELSE Len(v.s)

\* images[i] for an integer i: an element of an array, a character of a string, and
\* undefined outside 0..length-1
ElementAt(v, i) ==
    IF i < 0 \/ i >= LengthOf(v) THEN Undefined
    ELSE IF v.t = "array" THEN v.a[i + 1] ELSE Str(<<v.s[i + 1]>>)

\* the COMPARE_GRID case, for an input that is an array, a string or missing
executeCompareGrid(node, inputs) ==
    LET images == InputAt(node, inputs, 0)
        selectedIndex == ConfigGet(node.config, "selectedIndex")
    IN  IF ~Truthy(images) \/ LengthOf(images) = 0 THEN Throw(CompareNoImages)
        ELSE IF /\ selectedIndex.t # "null"
                /\ selectedIndex.t # "undefined"
                /\ NumberOf(selectedIndex) < LengthOf(images)
             THEN Return(Obj(<<Entry("images", images),
                               Entry("selected", ElementAt(images, NumberOf(selectedIndex)))>>))
             ELSE Return(Obj(<<Entry("images", images),
                               Entry("selected", ElementAt(images, 0))>>))

executeNode(node, inputs) ==
    CASE node.type = "IMAGE_INPUT" -> Return(OrElse(ConfigGet(node.config, "imageData"), Null))
      [] node.type = "TEXT_INPUT"  -> Return(OrElse(ConfigGet(node.config, "text"), Str(<<>>)))
      [] node.type = "TEXT_ARRAY_INPUT" -> executeTextArray(node)
      [] node.type = "GENERATE"    -> executeGenerate(node, inputs)
      [] node.type = "BATCH_GENERATE" -> executeBatchGenerate(node, inputs)
      [] node.type = "ANALYZE"     -> executeAnalyze(node, inputs)
      [] node.type = "COMPARE_GRID" -> executeCompareGrid(node, inputs)
      [] node.type = "OUTPUT"      -> Return(OrElse(InputAt(node, inputs, 0), Null))
      [] OTHER                     -> Throw(<<"Unknown node type: ", node.type>>)

\* "Determine what to show as result"
displayResult(result) ==
    IF result.t = "string" THEN result
    ELSE IF result.t = "array" THEN result
    ELSE IF result.t = "object" /\ Truthy(MapGet(result.a, "images")) THEN result
    ELSE Undefined

-----------------------------------------------------------------------------
(* WorkflowEngine.validate, cycle detection: the recursive closure hasCycle *)
(* over the sets `visited` and `recursionStack`.                            *)

RECURSIVE hasCycle(_, _, _, _)
RECURSIVE hasCycleScan(_, _, _, _, _, _)

\* the for-loop over outgoingConnections of nodeId, from position i
hasCycleScan(conns, nodeId, out, i, visited, stack) ==
    IF i > Len(out)
    THEN [cycle |-> FALSE, visited |-> visited, stack |-> stack \ {nodeId}]
    ELSE LET t == out[i].targetNodeId IN
         IF t \notin visited
         THEN LET r == hasCycle(conns, t, visited, stack) IN
              IF r.cycle THEN r
              ELSE hasCycleScan(conns, nodeId, out, i + 1, r.visited, r.stack)
         ELSE IF t \in stack
              THEN [cycle |-> TRUE, visited |-> visited, stack |-> stack]
              ELSE hasCycleScan(conns, nodeId, out, i + 1, visited, stack)

hasCycle(conns, nodeId, visited, stack) ==
    LET out == SelectSeq(conns, LAMBDA c : c.sourceNodeId = nodeId)
    IN  hasCycleScan(conns, nodeId, out, 1, visited \cup {nodeId}, stack \cup {nodeId})

\* error messages are tuples of their parts
CycleError == <<"Workflow contains a cycle - nodes cannot be connected in a loop">>

RECURSIVE cycleCheckFrom(_, _, _, _, _)
\* the loop `for (const node of this.nodes)` that starts hasCycle at every unvisited node
cycleCheckFrom(ns, conns, i, visited, stack) ==
    IF i > Len(ns) THEN <<>>
    ELSE IF ns[i].id \in visited THEN cycleCheckFrom(ns, conns, i + 1, visited, stack)
    ELSE LET r == hasCycle(conns, ns[i].id, visited, stack) IN
         IF r.cycle THEN <<CycleError>>
         ELSE cycleCheckFrom(ns, conns, i + 1, r.visited, r.stack)

\* mutant: the traversal is started at the first node only
cycleErrorsFirstOnly(ns, conns) ==
    IF Len(ns) = 0 THEN <<>>
    ELSE IF hasCycle(conns, ns[1].id, {}, {}).cycle THEN <<CycleError>> ELSE <<>>

cycleErrors(ns, conns) == cycleCheckFrom(ns, conns, 1, {}, {})

RequiredInputError(type) == <<type, " node requires at least one input connection">>

\* node.config.prompt?.trim() is truthy
HasLiteralPrompt(node) ==
    LET p == ConfigGet(node.config, "prompt")
    IN  p.t = "string" /\ Trim(p.s) # <<>>

RECURSIVE requiredInputErrorsFirst(_, _, _)
\* mutant: the loop stops at the first node it reports
requiredInputErrorsFirst(ns, conns, i) ==
    IF i > Len(ns) THEN <<>>
    ELSE LET node == ns[i]
             rest == requiredInputErrorsFirst(ns, conns, i + 1)
             hasConnection == \E j \in 1..Len(conns) : conns[j].targetNodeId = node.id
         IN  IF node.type \in {"IMAGE_INPUT", "TEXT_INPUT", "TEXT_ARRAY_INPUT"} THEN rest
             ELSE IF node.type = "BATCH_GENERATE" /\ Truthy(ConfigGet(node.config, "useVariables"))
                  THEN rest
             ELSE IF node.type = "GENERATE" /\ HasLiteralPrompt(node) THEN rest
             ELSE IF ~hasConnection /\ Len(node.inputs) > 0
                  THEN <<RequiredInputError(node.type)>>
                  ELSE rest

RECURSIVE requiredInputErrors(_, _, _)
\* the loop "Check for unconnected required inputs", from node i
requiredInputErrors(ns, conns, i) ==
    IF i > Len(ns) THEN <<>>
    ELSE LET node == ns[i]
             rest == requiredInputErrors(ns, conns, i + 1)
             hasConnection == \E j \in 1..Len(conns) : conns[j].targetNodeId = node.id
         IN  IF node.type \in {"IMAGE_INPUT", "TEXT_INPUT", "TEXT_ARRAY_INPUT"} THEN rest
             ELSE IF node.type = "BATCH_GENERATE" /\ Truthy(ConfigGet(node.config, "useVariables"))
                  THEN rest
             ELSE IF node.type = "GENERATE" /\ HasLiteralPrompt(node) THEN rest
             ELSE IF ~hasConnection /\ Len(node.inputs) > 0
                  THEN <<RequiredInputError(node.type)>> \o rest
                  ELSE rest

\* WorkflowEngine.validate
validate(ns, conns) ==
    LET errors == cycleErrors(ns, conns) \o requiredInputErrors(ns, conns, 1)
    IN  [valid |-> Len(errors) = 0, errors |-> errors]

-----------------------------------------------------------------------------
(* WorkflowEngine.getExecutionOrder: Kahn's algorithm over the Maps         *)
(* inDegree and adjacency, the queue seeded in Map insertion order.         *)

\* keys of the inDegree Map in insertion order: the nodes, then every target id
\* a connection names that is no node (inDegree.set on a missing key inserts it)
RECURSIVE inDegreeKeys(_, _, _)
inDegreeKeys(keys, conns, i) ==
    IF i > Len(conns) THEN keys
    ELSE LET t == conns[i].targetNodeId IN
         inDegreeKeys(IF t \in Range(keys) THEN keys ELSE Append(keys, t), conns, i + 1)

\* mutant: the "Build graph" loop counts a connection at its source
initialInDegreeAtSource(keys, conns) ==
    [k \in Range(keys) |-> Cardinality({i \in 1..Len(conns) : conns[i].sourceNodeId = k})]

\* inDegree after the "Build graph" loop
initialInDegree(keys, conns) ==
    [k \in Range(keys) |-> Cardinality({i \in 1..Len(conns) : conns[i].targetNodeId = k})]

\* adjacency.get(nodeId) || [] : the targets of nodeId's connections, in connection order
adjacencyOf(conns, nodeId) ==
    LET out == SelectSeq(conns, LAMBDA c : c.sourceNodeId = nodeId)
    IN  [i \in 1..Len(out) |-> out[i].targetNodeId]

RECURSIVE kahnRelax(_, _, _, _)
\* the loop over adjacency.get(nodeId): decrement each successor, enqueue it at zero
kahnRelax(targets, i, inDeg, queue) ==
    IF i > Len(targets) THEN [inDeg |-> inDeg, queue |-> queue]
    ELSE LET t == targets[i]
             newDegree == (IF t \in DOMAIN inDeg THEN inDeg[t] ELSE 0) - 1
             inDeg2 == [k \in (DOMAIN inDeg) \cup {t} |-> IF k = t THEN newDegree ELSE inDeg[k]]
         IN  kahnRelax(targets, i + 1, inDeg2,
                       IF newDegree = 0 THEN Append(queue, t) ELSE queue)

RECURSIVE kahn(_, _, _, _, _)
\* the while-loop over the queue; the order holds node ids (the node objects are
\* this.nodes.find(n => n.id === nodeId), skipped when there is none)
kahn(ns, conns, queue, inDeg, order) ==
    IF Len(queue) = 0 THEN order
    ELSE LET nodeId == Head(queue)
             order2 == IF nodeId \in NodeIds(ns) THEN Append(order, nodeId) ELSE order
             r     == kahnRelax(adjacencyOf(conns, nodeId), 1, inDeg, Tail(queue))
         IN  kahn(ns, conns, r.queue, r.inDeg, order2)

\* mutant: the nodes are taken in the order of the node list
getExecutionOrderAsListed(ns, conns) == [i \in 1..Len(ns) |-> ns[i].id]

\* WorkflowEngine.getExecutionOrder (Kahn's algorithm), as the list of the node ids
getExecutionOrder(ns, conns) ==
    LET keys  == inDegreeKeys([i \in 1..Len(ns) |-> ns[i].id], conns, 1)
        inDeg == initialInDegree(keys, conns)
        queue == SelectSeq(keys, LAMBDA k : inDeg[k] = 0)
    IN  kahn(ns, conns, queue, inDeg, <<>>)

-----------------------------------------------------------------------------
(* The run controller: WorkflowCanvas.handleExecute and                     *)
(* WorkflowEngine.execute.  A "world" w gathers the state a run touches:     *)
(* [nodes, engine, cache, backend, trace, executionResult, isExecuting].    *)

NoResult == [set |-> FALSE, success |-> FALSE, error |-> <<>>]
Success  == [set |-> TRUE, success |-> TRUE, error |-> <<>>]
Failure(msg) == [set |-> TRUE, success |-> FALSE, error |-> msg]

\* the locals of the chunk loop of a batch: prompts, limit, i, results, and the values the
\* promises of the current chunk have resolved with so far
NoBatch == [prompts |-> <<>>, limit |-> 0, i |-> 0, results |-> <<>>, settled |-> <<>>]

NoEngine == [pc |-> "none", nodes |-> <<>>, connections |-> <<>>, useCache |-> FALSE,
             order |-> <<>>, pos |-> 0, nodeResults |-> <<>>, inputs |-> <<>>,
             batch |-> NoBatch]

EmptyTrace == [updates |-> <<>>, executor |-> <<>>, calls |-> <<>>, gets |-> <<>>, sets |-> <<>>,
               events |-> <<>>]

NodeById(ns, id) == ns[CHOOSE i \in 1..Len(ns) : ns[i].id = id]

\* errors.join('; ')
RECURSIVE JoinErrors(_, _)
JoinErrors(errors, i) ==
    IF i > Len(errors) THEN <<>>
    ELSE errors[i] \o (IF i < Len(errors) THEN <<"; ">> ELSE <<>>) \o JoinErrors(errors, i + 1)

\* the update callback handleExecute passes to the engine:
\* setNodes(prev => prev.map(n => n.id === nodeId ? { ...n, ...updates } : n))
updateRunning(ns, nodeId) ==
    [i \in 1..Len(ns) |-> IF ns[i].id = nodeId THEN [ns[i] EXCEPT !.status = "running"] ELSE ns[i]]

updateComplete(ns, nodeId, shown, config) ==
    [i \in 1..Len(ns) |->
        IF ns[i].id = nodeId
        THEN [ns[i] EXCEPT !.status = "complete", !.result = shown, !.error = <<>>, !.config = config]
        ELSE ns[i]]

updateError(ns, nodeId, msg) ==
    [i \in 1..Len(ns) |->
        IF ns[i].id = nodeId THEN [ns[i] EXCEPT !.status = "error", !.error = msg] ELSE ns[i]]

Update(id, status, cached, shown) == [id |-> id, status |-> status, cached |-> cached, result |-> shown]

\* this.onNodeUpdate(node.id, { status: 'running' })
emitRunning(w, node) ==
    [w EXCEPT !.nodes = updateRunning(@, node.id),
              !.trace.updates = Append(@, Update(node.id, "running", Undefined, Undefined))]

\* the end of execute's loop body: the next node, or `return { success: true }` followed by
\* handleExecute's setExecutionResult(result); setIsExecuting(false)
nextNode(w) ==
    IF w.engine.pos + 1 > Len(w.engine.order)
    THEN [w EXCEPT !.engine.pc = "done", !.engine.pos = @ + 1,
                   !.executionResult = Success, !.isExecuting = FALSE]
    ELSE [w EXCEPT !.engine.pc = "loop", !.engine.pos = @ + 1]

\* mutant: an error is reported and the loop goes on with the next node
failNodeAndContinue(w, node, msg) ==
    nextNode([w EXCEPT !.nodes = updateError(@, node.id, msg),
                       !.trace.updates = Append(@, Update(node.id, "error", Undefined, Undefined))])

\* the catch block of execute, then handleExecute's setExecutionResult / setIsExecuting(false)
failNode(w, node, msg) ==
    [w EXCEPT !.nodes = updateError(@, node.id, msg),
              !.trace.updates = Append(@, Update(node.id, "error", Undefined, Undefined)),
              !.engine.pc = "done",
              !.executionResult = Failure(<<"Failed at ", node.type, ": ">> \o msg),
              !.isExecuting = FALSE]

\* mutant: a hit writes the entry again, with a new timestamp
hitNodeRefresh(w, node, cachedResult) ==
    nextNode([w EXCEPT
        !.cache = cacheSet([@ EXCEPT !.now = @ + 1], node.id,
                           hashInputs(node, getNodeInputs(node, w.engine.connections,
                                                          w.engine.nodeResults)).hash,
                           cachedResult, node.type),
        !.trace.sets = Append(@, node.id),
        !.engine.nodeResults = MapSet(@, node.id, cachedResult),
        !.nodes = updateComplete(@, node.id, displayResult(cachedResult),
                                 ConfigSet(node.config, "_cached", True)),
        !.trace.updates = Append(@, Update(node.id, "complete", True, displayResult(cachedResult)))])

\* the cache-hit branch of execute
hitNode(w, node, cachedResult) ==
    nextNode([w EXCEPT
        !.engine.nodeResults = MapSet(@, node.id, cachedResult),
        !.nodes = updateComplete(@, node.id, displayResult(cachedResult),
                                 ConfigSet(node.config, "_cached", True)),
        !.trace.updates = Append(@, Update(node.id, "complete", True, displayResult(cachedResult)))])

\* execute after `await this.executeNode(node, inputs)` has produced `result`
completeNode(w, node, inputs, result) ==
    LET h  == hashInputs(node, inputs)
        w1 == IF w.engine.useCache /\ ~h.threw
              THEN [w EXCEPT !.cache = cacheSet([@ EXCEPT !.now = @ + 1], node.id, h.hash, result, node.type),
                             !.trace.sets = Append(@, node.id)]
              ELSE w
    IN  IF w.engine.useCache /\ h.threw THEN failNode(w, node, BtoaErrorMessage)
        ELSE nextNode([w1 EXCEPT
                 !.engine.nodeResults = MapSet(@, node.id, result),
                 !.nodes = updateComplete(@, node.id, displayResult(result),
                                          ConfigSet(node.config, "_cached", False)),
                 !.trace.updates = Append(@, Update(node.id, "complete", False, displayResult(result)))])

\* a relative index of Array.prototype.slice: negative counts from the end
sliceIndex(n, k) == IF k < 0 THEN (IF n + k < 0 THEN 0 ELSE n + k) ELSE Min(k, n)

\* Array.prototype.slice(from, to)
slice(s, from, to) == SubSeq(s, sliceIndex(Len(s), from) + 1, sliceIndex(Len(s), to))

\* i += limit.  With a negative limit i falls without end; below zero every value of i
\* gives the same empty slice and the same loop test, so a value below -MaxBelow is
\* held as -1 and the loop is followed around -1, ..., -MaxBelow
advance(i, limit) == IF i + limit < 0 - MaxBelow THEN 0 - 1 ELSE i + limit

\* a call of the backend made for prompt number `index` of a batch
Event(kind, index, image) == [kind |-> kind, index |-> index, image |-> image]

\* the chunk loop of BATCH_GENERATE at its condition: return the results, or dispatch the
\* calls of the next chunk (batch.map) and await Promise.all
dispatchChunk(w, node) ==
    LET b     == w.engine.batch
        chunk == slice(b.prompts, b.i, b.i + b.limit)
    IN  IF ~(b.i < Len(b.prompts))
        THEN completeNode(w, node, w.engine.inputs, Arr(b.results))
        ELSE [w EXCEPT
                 !.engine.pc = "awaitAll",
                 !.engine.batch.settled = [k \in 1..Len(chunk) |-> Undefined],
                 !.backend.pending = @ \o
                     [k \in 1..Len(chunk) |->
                         [node |-> node.id, fn |-> "generateGenericImage",
                          args |-> <<chunk[k], <<>>,
                                     OrElse(ConfigGet(node.config, "aspectRatio"), Str(Chars("1:1"))),
                                     OrElse(ConfigGet(node.config, "quality"), Str(Chars("2K")))>>,
                          slot |-> k, orphan |-> FALSE]],
                 !.trace.calls = @ \o [k \in 1..Len(chunk) |-> node.id],
                 !.trace.events = @ \o [k \in 1..Len(chunk) |-> Event("dispatch", b.i + k, Undefined)]]

\* the pending calls without the one in slot `slot` of the chunk awaited
withoutSlot(pending, slot) == SelectSeq(pending, LAMBDA c : ~(~c.orphan /\ c.slot = slot))

\* mutant: the loop goes on as soon as one promise of the chunk has resolved
batchResolveAny(w, node, slot, image) ==
    LET b  == w.engine.batch
        w1 == [w EXCEPT !.backend.pending = withoutSlot(@, slot),
                        !.engine.batch.settled[slot] = image,
                        !.trace.events = Append(@, Event("return", b.i + slot, image))]
        w2 == [w1 EXCEPT !.backend.pending =
                             [k \in 1..Len(@) |-> [@[k] EXCEPT !.orphan = TRUE]],
                         !.engine.batch.results = @ \o <<image>>,
                         !.engine.batch.i = @ + b.limit]
    IN  dispatchChunk(w2, node)

\* one promise of the chunk resolves; when it is the last one, Promise.all resolves with
\* the values in the order of the chunk and the loop goes on
batchResolve(w, node, slot, image) ==
    LET b  == w.engine.batch
        w1 == [w EXCEPT !.backend.pending = withoutSlot(@, slot),
                        !.engine.batch.settled[slot] = image,
                        !.trace.events = Append(@, Event("return", b.i + slot, image))]
        batchResults == w1.engine.batch.settled
    IN  IF \E k \in 1..Len(batchResults) : batchResults[k] = Undefined
        THEN w1
        ELSE dispatchChunk([w1 EXCEPT !.engine.batch.results = @ \o batchResults,
                                      !.engine.batch.i = advance(@, b.limit)], node)

\* Promise.all of an empty chunk resolves with no values and the loop goes on
batchResolveEmpty(w, node) ==
    dispatchChunk([w EXCEPT !.engine.batch.i = advance(@, w.engine.batch.limit)], node)

\* mutant: a rejected call is left out (its slot holds null) and the loop goes on
batchRejectSkip(w, node, slot, msg) ==
    LET b  == w.engine.batch
        w1 == [w EXCEPT !.backend.pending = withoutSlot(@, slot),
                        !.engine.batch.settled[slot] = Null,
                        !.trace.events = Append(@, Event("throw", b.i + slot, Undefined))]
        batchResults == w1.engine.batch.settled
    IN  IF \E k \in 1..Len(batchResults) : batchResults[k] = Undefined
        THEN w1
        ELSE dispatchChunk([w1 EXCEPT !.engine.batch.results = @ \o batchResults,
                                      !.engine.batch.i = @ + b.limit], node)

\* one promise of the chunk rejects: Promise.all rejects at once and executeNode throws;
\* the other calls of the chunk stay in flight with nobody awaiting them
batchReject(w, node, slot, msg) ==
    LET b  == w.engine.batch
        w1 == [w EXCEPT !.backend.pending =
                            LET rest == withoutSlot(@, slot)
                            IN  [k \in 1..Len(rest) |-> [rest[k] EXCEPT !.orphan = TRUE]],
                        !.trace.events = Append(@, Event("throw", b.i + slot, Undefined))]
    IN  failNode(w1, node, msg)

\* the miss branch: executeNode up to its first await on the backend
runExecutor(w, node, inputs) ==
    LET out == executeNode(node, inputs)
        w1  == [w EXCEPT !.trace.executor = Append(@, node.id)]
    IN  CASE out.kind = "return" -> completeNode(w1, node, inputs, out.value)
          [] out.kind = "throw"  -> failNode(w1, node, out.message)
          [] out.kind = "call"   ->
               [w1 EXCEPT !.engine.pc = "await", !.engine.inputs = inputs,
                          !.backend.pending = <<[node |-> node.id, fn |-> out.fn, args |-> out.args,
                                                  slot |-> 1, orphan |-> FALSE]>>,
                          !.trace.calls = Append(@, node.id)]
          [] out.kind = "batch"  ->
               dispatchChunk([w1 EXCEPT !.engine.inputs = inputs,
                                        !.engine.batch = [NoBatch EXCEPT
                                            !.prompts = out.value.a,
                                            !.limit = NumberOf(out.args[1])]], node)

\* mutant: the cache is consulted before `running` is emitted, and a hit skips it
processNodeQuietHit(w, node) ==
    LET inputs == getNodeInputs(node, w.engine.connections, w.engine.nodeResults)
        h      == hashInputs(node, inputs)
        cachedResult == cacheGet(w.cache, node.id, h.hash)
    IN  IF w.engine.useCache /\ ~h.threw /\ cachedResult.t # "null"
        THEN hitNode([w EXCEPT !.trace.gets = Append(@, [id |-> node.id, hit |-> TRUE])],
                     node, cachedResult)
        ELSE runExecutor(emitRunning(w, node), node, inputs)

\* one iteration of execute's loop, up to the first await on the backend
processNode(w, node) ==
    LET w1     == emitRunning(w, node)
        inputs == getNodeInputs(node, w.engine.connections, w.engine.nodeResults)
        h      == hashInputs(node, inputs)
        cachedResult == cacheGet(w.cache, node.id, h.hash)
        w2     == [w1 EXCEPT !.trace.gets = Append(@, [id |-> node.id, hit |-> cachedResult.t # "null"])]
    IN  IF ~w.engine.useCache THEN runExecutor(w1, node, inputs)
        ELSE IF h.threw THEN failNode(w1, node, BtoaErrorMessage)
        ELSE IF cachedResult.t # "null" THEN hitNode(w2, node, cachedResult)
        ELSE runExecutor(w2, node, inputs)

\* mutant: the reset clears the error and the cache flag and leaves the status as it was
resetNodesKeepStatus(ns) ==
    [i \in 1..Len(ns) |->
        [ns[i] EXCEPT !.error = <<>>, !.config = ConfigSet(@, "_cached", Undefined)]]

\* handleExecute's reset: status idle, error undefined, _cached undefined
resetNodes(ns) ==
    [i \in 1..Len(ns) |->
        [ns[i] EXCEPT !.status = "idle", !.error = <<>>,
                      !.config = ConfigSet(@, "_cached", Undefined)]]

\* mutant: a refused run reports the first error of the validator only
startExecuteFirstError(w, ns, conns, useCache) ==
    LET v == validate(ns, conns)
        e == [NoEngine EXCEPT !.nodes = ns, !.connections = conns, !.useCache = useCache]
    IN  IF ~v.valid
        THEN [w EXCEPT !.engine = [e EXCEPT !.pc = "refused"],
                       !.executionResult = Failure(v.errors[1]),
                       !.isExecuting = FALSE]
        ELSE nextNode([w EXCEPT !.engine = [e EXCEPT !.order = getExecutionOrder(ns, conns)],
                                !.executionResult = NoResult,
                                !.isExecuting = TRUE])

\* execute from its start to the loop: validate, getExecutionOrder, nodeResults.clear()
startExecute(w, ns, conns, useCache) ==
    LET v == validate(ns, conns)
        e == [NoEngine EXCEPT !.nodes = ns, !.connections = conns, !.useCache = useCache]
    IN  IF ~v.valid
        THEN [w EXCEPT !.engine = [e EXCEPT !.pc = "refused"],
                       !.executionResult = Failure(JoinErrors(v.errors, 1)),
                       !.isExecuting = FALSE]
        ELSE nextNode([w EXCEPT !.engine = [e EXCEPT !.order = getExecutionOrder(ns, conns)],
                                !.executionResult = NoResult,
                                !.isExecuting = TRUE])

World == [nodes |-> nodes, engine |-> engine, cache |-> cache, backend |-> backend,
          trace |-> trace, executionResult |-> executionResult, isExecuting |-> isExecuting]

\* the world once the backend call in flight has settled
Settled == [World EXCEPT !.backend.pending = <<>>]

Becomes(w) ==
    \E x \in {w} :
        /\ nodes' = x.nodes
        /\ engine' = x.engine
        /\ cache' = x.cache
        /\ backend' = x.backend
        /\ trace' = x.trace
        /\ executionResult' = x.executionResult
        /\ isExecuting' = x.isExecuting

\* the backend's images
BackendImages == {Str(Chars("data:j"))}

BackendError == <<"Model returned no image.">>

\* the "Run Workflow" button: handleExecute up to the first await on the backend
HandleExecute ==
    /\ ~isExecuting
    /\ Len(nodes) > 0
    /\ before.runs < MaxRuns
    /\ before' = [runs |-> before.runs + 1,
                  edits |-> before.edits,
                  status |-> [i \in 1..Len(nodes) |-> nodes[i].status],
                  cache |-> cache,
                  prev |-> [trace |-> trace, result |-> executionResult,
                            nodes |-> engine.nodes, connections |-> engine.connections,
                            useCache |-> engine.useCache]]
    /\ Becomes(startExecute([World EXCEPT !.nodes = resetNodes(nodes), !.trace = EmptyTrace],
                            nodes, connections, cacheEnabled))
    /\ UNCHANGED <<editor, probe, connections, cacheEnabled, validation, execOrder>>

\* the next iteration of execute's loop
ProcessNode ==
    /\ engine.pc = "loop"
    /\ Becomes(processNode(World, NodeById(engine.nodes, engine.order[engine.pos])))
    /\ UNCHANGED <<editor, probe, connections, cacheEnabled, before, validation, execOrder>>

\* the backend call of the node in flight resolves with an image
BackendReturn ==
    /\ engine.pc = "await"
    /\ \E img \in BackendImages :
         Becomes(completeNode(Settled, NodeById(engine.nodes, engine.order[engine.pos]),
                              engine.inputs, img))
    /\ UNCHANGED <<editor, probe, connections, cacheEnabled, before, validation, execOrder>>

\* the backend call of the node in flight rejects
BackendThrow ==
    /\ engine.pc = "await"
    /\ Becomes(failNode(Settled, NodeById(engine.nodes, engine.order[engine.pos]), BackendError))
    /\ UNCHANGED <<editor, probe, connections, cacheEnabled, before, validation, execOrder>>


\* the "Cache" checkbox: setCacheEnabled(e.target.checked).  The engine reads the flag
\* once, when handleExecute calls execute(cacheEnabled), so a change made while a run is
\* in flight acts like the same change made after it; only the latter is followed
ToggleCache ==
    /\ ~isExecuting
    /\ before.runs < MaxRuns
    /\ cacheEnabled' = ~cacheEnabled
    /\ UNCHANGED <<editor, probe, nodes, connections, isExecuting, executionResult, engine, cache, backend,
                   trace, before, validation, execOrder>>

-----------------------------------------------------------------------------
(* The canvases workflows are run on: what handleAddNode, handleConfigChange *)
(* and handlePortDrop can build from at most MaxNodes nodes.                *)

\* arePortsCompatible
arePortsCompatible(type1, type2) ==
    \/ type1 = type2
    \/ type1 = "style" /\ type2 = "image"
    \/ type1 = "image" /\ type2 = "style"
    \/ type1 = "imageArray" /\ type2 = "image"
    \/ type1 = "textArray" /\ type2 = "text"

\* handleConfigChange: config: { ...n.config, ...config }, for a one-key patch
handleConfigChange(ns, nodeId, key, v) ==
    [i \in 1..Len(ns) |->
        IF ns[i].id = nodeId THEN [ns[i] EXCEPT !.config = ConfigSet(@, key, v)] ELSE ns[i]]

\* the key of the literal a user gives a node of each kind
LiteralKey(type) ==
    CASE type = "IMAGE_INPUT" -> "imageData"
      [] type = "TEXT_INPUT"  -> "text"
      [] type = "GENERATE"    -> "prompt"
      [] OTHER                -> ""

\* the nodes of the palette with the literals the user may have given them
Palette ==
    <<[type |-> "IMAGE_INPUT", literal |-> Null],
      [type |-> "IMAGE_INPUT", literal |-> Str(Chars("data:i"))],
      [type |-> "TEXT_INPUT", literal |-> Str(<<>>)],
      [type |-> "TEXT_INPUT", literal |-> Str(Chars("a"))],
      [type |-> "GENERATE", literal |-> Str(<<>>)],
      [type |-> "GENERATE", literal |-> Str(Chars("a"))],
      [type |-> "OUTPUT", literal |-> Undefined]>>

\* a node as the factory makes it, its literal set through handleConfigChange
ConfiguredNode(id, p) ==
    IF LiteralKey(p.type) = "" THEN createNode(id, p.type)
    ELSE handleConfigChange(<<createNode(id, p.type)>>, id, LiteralKey(p.type), p.literal)[1]

\* the node lists of length n, ids 1..n in the order the nodes were added: the user adds
\* nodes of the palette in its order (sources first, outputs last), each at most once
CanvasNodes(n) ==
    {[i \in 1..n |-> ConfiguredNode(i, Palette[pick[i]])] :
        pick \in {f \in [1..n -> 1..Len(Palette)] : \A i \in 1..(n - 1) : f[i] < f[i + 1]}}

\* the input ports of a node list, as <<node position, port position>>, in canvas order
InputSlots(ns) ==
    LET all == [k \in 1..(2 * Len(ns)) |-> <<(k + 1) \div 2, 2 - (k % 2)>>]
    IN  SelectSeq(all, LAMBDA sl : sl[2] <= Len(ns[sl[1]].inputs))

\* the output ports handlePortDrop lets feed input port sl: another node's, of a compatible type
SourcesFor(ns, sl) ==
    {src \in (1..Len(ns)) \X (1..1) :
        /\ src[1] # sl[1]
        /\ src[2] <= Len(ns[src[1]].outputs)
        /\ arePortsCompatible(ns[src[1]].outputs[src[2]].type, ns[sl[1]].inputs[sl[2]].type)}

RECURSIVE CanvasConnectionsFrom(_, _, _)
\* the connection lists over the input ports from slot k on: each port is left unconnected
\* or fed by one connection (a drag dropped on an input replaces its connection)
CanvasConnectionsFrom(ns, slots, k) ==
    IF k > Len(slots) THEN {<<>>}
    ELSE LET rest == CanvasConnectionsFrom(ns, slots, k + 1)
             sl   == slots[k]
         IN  rest \cup
             {<<Conn(k, ns[src[1]].id, ns[src[1]].outputs[src[2]].id,
                     ns[sl[1]].id, ns[sl[1]].inputs[sl[2]].id)>> \o cs :
                 src \in SourcesFor(ns, sl), cs \in rest}

CanvasConnections(ns) == CanvasConnectionsFrom(ns, InputSlots(ns), 1)

NoValidation == [done |-> FALSE, valid |-> FALSE, errors |-> <<>>]

\* no connection drag pending (pendingConnection null), nothing selected; nextId counts
\* the ids generateId() has handed out
NoEditor == [pendingConnection |-> <<>>, selectedNodeId |-> 0, selectedConnectionId |-> 0,
             nextId |-> 1]

NoProbe == [done |-> FALSE, args |-> <<>>, result |-> <<>>]
NoOrder == [done |-> FALSE, order |-> <<>>]

InitRun ==
    /\ isExecuting = FALSE
    /\ executionResult = NoResult
    /\ cacheEnabled = TRUE
    /\ engine = NoEngine
    /\ cache = [map |-> <<>>, stored |-> <<>>, now |-> 0]
    /\ backend = [pending |-> <<>>]
    /\ trace = EmptyTrace
    /\ before = [runs |-> 0, edits |-> 0, status |-> <<>>,
                 cache |-> [map |-> <<>>, stored |-> <<>>, now |-> 0],
                 prev |-> [trace |-> EmptyTrace, result |-> NoResult, nodes |-> <<>>,
                           connections |-> <<>>, useCache |-> FALSE]]
    /\ validation = NoValidation
    /\ execOrder = NoOrder
    /\ editor = NoEditor

Init ==
    /\ \E n \in 1..MaxNodes : nodes \in CanvasNodes(n)
    /\ connections \in CanvasConnections(nodes)
    /\ InitRun
    /\ probe = NoProbe

Next ==
    \/ HandleExecute
    \/ ProcessNode
    \/ BackendReturn
    \/ BackendThrow
    \/ ToggleCache

Spec == Init /\ [][Next]_vars

-----------------------------------------------------------------------------
(* Runs with the cache left enabled, and between them edits of the nodes'   *)
(* literals (the properties panel and handleImageUpload call                *)
(* handleConfigChange), on canvases of at most MaxEditNodes nodes.          *)

\* the values the user may type or upload for the literal of a node
EditValues(type) ==
    CASE type = "IMAGE_INPUT" -> {Str(Chars("data:i"))}
      [] type = "TEXT_INPUT"  -> {Str(<<>>), Str(Chars("a"))}
      [] type = "GENERATE"    -> {Str(<<>>), Str(Chars("a")), Str(Chars("b"))}
      [] OTHER                -> {}

\* the user changes the literal of a node while no run is in flight
HandleConfigChange ==
    /\ ~isExecuting
    /\ before.edits < MaxEdits
    /\ \E i \in 1..Len(nodes) :
         \E v \in EditValues(nodes[i].type) :
            /\ ConfigGet(nodes[i].config, LiteralKey(nodes[i].type)) # v
            /\ nodes' = handleConfigChange(nodes, nodes[i].id, LiteralKey(nodes[i].type), v)
    /\ before' = [before EXCEPT !.edits = @ + 1]
    /\ UNCHANGED <<editor, probe, connections, isExecuting, executionResult, cacheEnabled, engine, cache,
                   backend, trace, validation, execOrder>>

InitEdit ==
    /\ \E n \in 1..MaxEditNodes : nodes \in CanvasNodes(n)
    /\ connections \in CanvasConnections(nodes)
    /\ InitRun
    /\ probe = NoProbe

NextEdit ==
    \/ HandleExecute
    \/ ProcessNode
    \/ BackendReturn
    \/ BackendThrow
    \/ HandleConfigChange

SpecEdit == InitEdit /\ [][NextEdit]_vars

-----------------------------------------------------------------------------
(* validate and getExecutionOrder applied to graphs of any shape: up to     *)
(* MaxGraphNodes nodes and any list of up to MaxGraphConns connections      *)
(* between them (self-loops, parallel connections, islands).                *)

GraphNodes(n) == [i \in 1..n |-> createNode(i, "GENERATE")]

GraphConnections(ns) ==
    LET pairs == (1..Len(ns)) \X (1..Len(ns))
        seqs  == SeqsUpTo(pairs, MaxGraphConns)
    IN  {[k \in 1..Len(q) |->
            Conn(k, q[k][1], ns[q[k][1]].outputs[1].id, q[k][2], ns[q[k][2]].inputs[2].id)] :
         q \in seqs}

InitGraph ==
    /\ \E n \in 1..MaxGraphNodes : nodes = GraphNodes(n)
    /\ connections \in GraphConnections(nodes)
    /\ InitRun
    /\ probe = NoProbe

\* new WorkflowEngine(nodes, connections, ...).validate()
Validate ==
    /\ ~validation.done
    /\ validation' = [done |-> TRUE] @@ validate(nodes, connections)
    /\ UNCHANGED <<editor, probe, nodes, connections, isExecuting, executionResult, cacheEnabled, engine,
                   cache, backend, trace, before, execOrder>>

\* new WorkflowEngine(nodes, connections, ...).getExecutionOrder()
GetExecutionOrder ==
    /\ ~execOrder.done
    /\ execOrder' = [done |-> TRUE, order |-> getExecutionOrder(nodes, connections)]
    /\ UNCHANGED <<editor, probe, nodes, connections, isExecuting, executionResult, cacheEnabled, engine,
                   cache, backend, trace, before, validation>>

NextGraph == Validate \/ GetExecutionOrder

SpecGraph == InitGraph /\ [][NextGraph]_vars


-----------------------------------------------------------------------------
(* expandVariables applied to templates and variables as the properties     *)
(* panel lets the user enter them: names typed into a prompt, values typed  *)
(* as a comma-separated list.                                               *)

ExpandNames == {"c", "s", "1"}

\* the values the user may list for a variable
ExpandValues(name) ==
    CASE name = "c" -> {<<"r">>, <<"{", "{", "s", "}", "}">>}
      [] name = "s" -> {<<"b">>, <<"$", "$">>}
      [] OTHER      -> {<<"x">>, <<"y">>}

ExpandTemplates ==
    {<<"A", " ", "{", "{", "c", "}", "}", " ", "{", "{", "s", "}", "}">>,
     <<"{", "{", "1", "}", "}", "{", "{", "c", "}", "}", "{", "{", "c", "}", "}">>}

\* the declarations of up to MaxVars variables: names in the order the user added
\* them, each with its list of values
Declarations ==
    {d \in SeqsUpTo([k : ExpandNames, v : UNION {SeqsUpTo(ExpandValues(n), MaxValues) : n \in ExpandNames}],
                    MaxVars) :
        /\ \A i, j \in 1..Len(d) : i # j => d[i].k # d[j].k
        /\ \A i \in 1..Len(d) : Range(d[i].v) \subseteq ExpandValues(d[i].k)}

RECURSIVE variablesObject(_, _)
\* node.config.variables after the user has declared d[1..i]: the "+ Add Variable"
\* button and the values field both build { ...node.config.variables, [name]: values }
variablesObject(d, i) ==
    IF i = 0 THEN <<>>
    ELSE objectSet(variablesObject(d, i - 1), d[i].k,
                   Arr([j \in 1..Len(d[i].v) |-> Str(d[i].v[j])]))

InitExpand ==
    /\ nodes = <<>>
    /\ connections = <<>>
    /\ InitRun
    /\ \E t \in ExpandTemplates, d \in Declarations :
          probe = [done |-> FALSE, args |-> [template |-> t, declared |-> d], result |-> <<>>]

\* expandVariables(node.config.promptText, node.config.variables)
ExpandVariables ==
    /\ ~probe.done
    /\ probe' = [probe EXCEPT !.done = TRUE,
                              !.result = expandVariables(probe.args.template,
                                                         variablesObject(probe.args.declared,
                                                                         Len(probe.args.declared)))]
    /\ UNCHANGED <<nodes, connections, isExecuting, executionResult, cacheEnabled, engine,
                   cache, backend, trace, before, validation, execOrder, editor>>

NextExpand == ExpandVariables

SpecExpand == InitExpand /\ [][NextExpand]_vars

-----------------------------------------------------------------------------
(* validate applied to canvases of mixed node kinds, connected as           *)
(* handlePortDrop connects them: up to MaxValidateNodes nodes.              *)

\* the nodes of the palette that validate tells apart, with the config key the user set
ValidatePalette ==
    <<[type |-> "IMAGE_INPUT", key |-> "", literal |-> Undefined],
      [type |-> "TEXT_INPUT", key |-> "text", literal |-> Str(Chars("a"))],
      [type |-> "TEXT_ARRAY_INPUT", key |-> "", literal |-> Undefined],
      [type |-> "GENERATE", key |-> "", literal |-> Undefined],
      [type |-> "GENERATE", key |-> "prompt", literal |-> Str(<<" ">>)],
      [type |-> "GENERATE", key |-> "prompt", literal |-> Str(Chars("a"))],
      [type |-> "BATCH_GENERATE", key |-> "", literal |-> Undefined],
      [type |-> "BATCH_GENERATE", key |-> "useVariables", literal |-> True],
      [type |-> "OUTPUT", key |-> "", literal |-> Undefined]>>

\* a node as the factory makes it, one key of its config set through handleConfigChange
ValidateNode(id, p) ==
    IF p.key = "" THEN createNode(id, p.type)
    ELSE handleConfigChange(<<createNode(id, p.type)>>, id, p.key, p.literal)[1]

\* the node lists of length n, ids 1..n, palette entries in palette order, each at most once
ValidateNodes(n) ==
    {[i \in 1..n |-> ValidateNode(i, ValidatePalette[pick[i]])] :
        pick \in {f \in [1..n -> 1..Len(ValidatePalette)] : \A i \in 1..(n - 1) : f[i] < f[i + 1]}}

InitValidate ==
    /\ \E n \in 1..MaxValidateNodes : nodes \in ValidateNodes(n)
    /\ connections \in CanvasConnections(nodes)
    /\ InitRun
    /\ probe = NoProbe

NextValidate == Validate

SpecValidate == InitValidate /\ [][NextValidate]_vars

-----------------------------------------------------------------------------
(* NodeCache.set called over and over in one session, past MAX_CACHE_SIZE   *)
(* entries: for a node id not cached yet or for one of the oldest ids, with *)
(* Date.now() advanced or (within one millisecond) unchanged.               *)

\* the ids set again after their first write
RewrittenIds == {1, 2}

InitCache ==
    /\ nodes = <<>>
    /\ connections = <<>>
    /\ InitRun
    /\ probe = [done |-> FALSE, args |-> [written |-> <<>>, ties |-> 0, resets |-> 0],
                result |-> <<>>]

\* nodeCache.set(nodeId, inputHash, result, nodeType)
CacheSet ==
    /\ Len(probe.args.written) < MaxSets
    /\ \E nodeId \in RewrittenIds \cup {Len(cache.map) + 1}, tick \in 0..1 :
          LET isReset == MapHas(cache.map, nodeId)
              isTie   == tick = 0
              n       == Len(probe.args.written) + 1
          IN  /\ nodeId <= Len(cache.map) + 1
              /\ isReset => probe.args.resets < MaxResets
              /\ isTie => (probe.args.ties < MaxTies /\ cache.map # <<>>)
              /\ cache' = cacheSet([cache EXCEPT !.now = @ + tick], nodeId,
                                   Chars("GENERATE"), Str(<<Digit(n % 10)>>), "GENERATE")
              /\ probe' = [probe EXCEPT !.args.written = Append(@, nodeId),
                                        !.args.resets = IF isReset THEN @ + 1 ELSE @,
                                        !.args.ties = IF isTie THEN @ + 1 ELSE @]
    /\ UNCHANGED <<nodes, connections, isExecuting, executionResult, cacheEnabled, engine,
                   backend, trace, before, validation, execOrder, editor>>

NextCache == CacheSet

SpecCache == InitCache /\ [][NextCache]_vars

-----------------------------------------------------------------------------
(* The graph editor (WorkflowCanvas): nodes added from the palette,         *)
(* connections dragged from port to port, nodes and connections deleted by  *)
(* button or by the Delete key.  generateId() hands out editor.nextId.      *)

\* the ports of a node on one side
PortsOf(node, isInput) == IF isInput THEN node.inputs ELSE node.outputs

\* handleDeleteNode, the connections it leaves
connectionsWithoutNode(conns, nodeId) ==
    SelectSeq(conns, LAMBDA c : c.sourceNodeId # nodeId /\ c.targetNodeId # nodeId)

\* handleDeleteConnection, the connections it leaves
connectionsWithout(conns, connId) == SelectSeq(conns, LAMBDA c : c.id # connId)

\* handlePortDrop past its early returns: the connection list with the new connection
connectDrop(conns, pending, nodeId, portId, newId) ==
    LET kept == SelectSeq(conns, LAMBDA c : ~(c.targetNodeId = nodeId /\ c.targetPortId = portId))
        sourceNodeId == IF pending.startIsInput THEN nodeId ELSE pending.startNodeId
        sourcePortId == IF pending.startIsInput THEN portId ELSE pending.startPortId
        targetNodeId == IF pending.startIsInput THEN pending.startNodeId ELSE nodeId
        targetPortId == IF pending.startIsInput THEN pending.startPortId ELSE portId
    IN  Append(kept, Conn(newId, sourceNodeId, sourcePortId, targetNodeId, targetPortId))

\* the pointer is free: while a connection drag is pending the mouse button is held down,
\* and releasing it anywhere ends the drag (window mouseup listener)
PointerFree == editor.pendingConnection = <<>>

UnchangedRun ==
    UNCHANGED <<isExecuting, executionResult, cacheEnabled, engine, cache, backend, trace,
                before, validation, execOrder, probe>>

\* handleAddNode (drop from the palette)
HandleAddNode ==
    /\ PointerFree
    /\ editor.nextId <= MaxIds
    /\ \E type \in NodeKinds :
          /\ nodes' = Append(nodes, createNode(editor.nextId, type))
          /\ editor' = [editor EXCEPT !.selectedNodeId = editor.nextId, !.nextId = @ + 1]
    /\ UNCHANGED connections
    /\ UnchangedRun

\* mouse down on a node: onSelect
SelectNode ==
    /\ PointerFree
    /\ \E i \in 1..Len(nodes) :
          editor' = [editor EXCEPT !.selectedNodeId = nodes[i].id, !.selectedConnectionId = 0]
    /\ UNCHANGED <<nodes, connections>>
    /\ UnchangedRun

\* click on a connection: onConnectionClick
SelectConnection ==
    /\ PointerFree
    /\ \E i \in 1..Len(connections) :
          editor' = [editor EXCEPT !.selectedConnectionId = connections[i].id,
                                   !.selectedNodeId = 0]
    /\ UNCHANGED <<nodes, connections>>
    /\ UnchangedRun

\* handleDeleteNode from the delete button of a node
HandleDeleteNode ==
    /\ PointerFree
    /\ \E i \in 1..Len(nodes) :
          LET nodeId == nodes[i].id IN
          /\ nodes' = SelectSeq(nodes, LAMBDA n : n.id # nodeId)
          /\ connections' = connectionsWithoutNode(connections, nodeId)
          /\ editor' = [editor EXCEPT
                           !.selectedNodeId = IF @ = nodeId THEN 0 ELSE @]
    /\ UnchangedRun

\* handleKeyDown, Delete or Backspace: handleDeleteNode(selectedNodeId) and
\* handleDeleteConnection(selectedConnectionId); the keyboard works during a drag too
HandleKeyDown ==
    /\ editor.selectedNodeId # 0 \/ editor.selectedConnectionId # 0
    /\ LET nodeId == editor.selectedNodeId
           connId == editor.selectedConnectionId
           conns1 == IF nodeId # 0 THEN connectionsWithoutNode(connections, nodeId)
                     ELSE connections
       IN  /\ nodes' = IF nodeId # 0 THEN SelectSeq(nodes, LAMBDA n : n.id # nodeId) ELSE nodes
           /\ connections' = IF connId # 0 THEN connectionsWithout(conns1, connId) ELSE conns1
           /\ editor' = [editor EXCEPT !.selectedNodeId = 0, !.selectedConnectionId = 0]
    /\ UnchangedRun

\* handlePortDragStart: mouse down on a port of a node
HandlePortDragStart ==
    /\ PointerFree
    /\ \E i \in 1..Len(nodes), isInput \in BOOLEAN :
          \E k \in 1..Len(PortsOf(nodes[i], isInput)) :
              LET port == PortsOf(nodes[i], isInput)[k] IN
              editor' = [editor EXCEPT !.pendingConnection =
                            <<[startNodeId |-> nodes[i].id, startPortId |-> port.id,
                               startIsInput |-> isInput, startPortType |-> port.type]>>]
    /\ UNCHANGED <<nodes, connections>>
    /\ UnchangedRun

\* handlePortDrop: mouse up on a port of a node
HandlePortDrop ==
    /\ editor.pendingConnection # <<>>
    /\ \E i \in 1..Len(nodes), isInput \in BOOLEAN :
          \E k \in 1..Len(PortsOf(nodes[i], isInput)) :
              LET pending == editor.pendingConnection[1]
                  nodeId  == nodes[i].id
                  port    == PortsOf(nodes[i], isInput)[k]
              IN  IF \/ nodeId = pending.startNodeId
                     \/ isInput = pending.startIsInput
                     \/ ~arePortsCompatible(pending.startPortType, port.type)
                  THEN /\ editor' = [editor EXCEPT !.pendingConnection = <<>>]
                       /\ UNCHANGED connections
                  ELSE /\ editor.nextId <= MaxIds
                       /\ connections' = connectDrop(connections, pending, nodeId, port.id,
                                                     editor.nextId)
                       /\ editor' = [editor EXCEPT !.pendingConnection = <<>>, !.nextId = @ + 1]
    /\ UNCHANGED nodes
    /\ UnchangedRun

\* handleMouseUp on the window: the button is released away from any port
HandleMouseUp ==
    /\ editor.pendingConnection # <<>>
    /\ editor' = [editor EXCEPT !.pendingConnection = <<>>]
    /\ UNCHANGED <<nodes, connections>>
    /\ UnchangedRun

InitEditor ==
    /\ nodes = <<>>
    /\ connections = <<>>
    /\ InitRun
    /\ probe = NoProbe

NextEditor ==
    \/ HandleAddNode
    \/ SelectNode
    \/ SelectConnection
    \/ HandleDeleteNode
    \/ HandleKeyDown
    \/ HandlePortDragStart
    \/ HandlePortDrop
    \/ HandleMouseUp

SpecEditor == InitEditor /\ [][NextEditor]_vars

-----------------------------------------------------------------------------
(* WorkflowEngine.executeFromNode: an engine built over a canvas is asked   *)
(* to execute one node and its dependencies.  The update callback is the    *)
(* one handleExecute passes: { ...n, ...updates }.                          *)

RECURSIVE collectDependencies(_, _, _)
RECURSIVE collectScan(_, _, _, _)

\* the for-loop over `incoming`, from position i
collectScan(conns, incoming, i, dependencies) ==
    IF i > Len(incoming) THEN dependencies
    ELSE LET src == incoming[i].sourceNodeId IN
         IF src \notin dependencies
         THEN collectScan(conns, incoming, i + 1,
                          collectDependencies(conns, src, dependencies \cup {src}))
         ELSE collectScan(conns, incoming, i + 1, dependencies)

\* mutant: only the nodes connected to the target directly are collected
collectDirect(conns, id, dependencies) ==
    dependencies \cup {c.sourceNodeId : c \in {conns[i] : i \in {j \in 1..Len(conns) :
                                                      conns[j].targetNodeId = id}}}

\* the closure collectDependencies over the Set `dependencies`
collectDependencies(conns, id, dependencies) ==
    collectScan(conns, SelectSeq(conns, LAMBDA c : c.targetNodeId = id), 1, dependencies)

\* fullOrder.filter(n => dependencies.has(n.id) || n.id === nodeId)
relevantNodes(ns, conns, nodeId) ==
    LET dependencies == collectDependencies(conns, nodeId, {})
    IN  SelectSeq(getExecutionOrder(ns, conns), LAMBDA id : id \in dependencies \/ id = nodeId)

\* onNodeUpdate(node.id, { status: 'complete', result: ... }): error and config are kept
updateCompleteFrom(ns, nodeId, shown) ==
    [i \in 1..Len(ns) |->
        IF ns[i].id = nodeId THEN [ns[i] EXCEPT !.status = "complete", !.result = shown]
        ELSE ns[i]]

\* the end of the loop body of executeFromNode: the next node, or `return { success: true }`
fromNextNode(w) ==
    IF w.engine.pos + 1 > Len(w.engine.order)
    THEN [w EXCEPT !.engine.pc = "done", !.engine.pos = @ + 1, !.executionResult = Success]
    ELSE [w EXCEPT !.engine.pc = "loop", !.engine.pos = @ + 1]

\* the catch block of executeFromNode
fromFailNode(w, node, msg) ==
    [w EXCEPT !.nodes = updateError(@, node.id, msg),
              !.trace.updates = Append(@, Update(node.id, "error", Undefined, Undefined)),
              !.engine.pc = "done",
              !.executionResult = Failure(msg)]

\* executeFromNode after `await this.executeNode(node, inputs)` has produced `result`
fromCompleteNode(w, node, result) ==
    LET shown == IF result.t = "string" THEN result ELSE Undefined
    IN  fromNextNode([w EXCEPT
            !.engine.nodeResults = MapSet(@, node.id, result),
            !.nodes = updateCompleteFrom(@, node.id, shown),
            !.trace.updates = Append(@, Update(node.id, "complete", Undefined, shown))])

\* one iteration of the loop of executeFromNode, up to the first await on the backend
fromProcessNode(w, node) ==
    LET w1     == emitRunning(w, node)
        inputs == getNodeInputs(node, w.engine.connections, w.engine.nodeResults)
        out    == executeNode(node, inputs)
        w2     == [w1 EXCEPT !.trace.executor = Append(@, node.id)]
    IN  CASE out.kind = "return" -> fromCompleteNode(w2, node, out.value)
          [] out.kind = "throw"  -> fromFailNode(w2, node, out.message)
          [] out.kind = "call"   ->
               [w2 EXCEPT !.engine.pc = "await", !.engine.inputs = inputs,
                          !.backend.pending = <<[node |-> node.id, fn |-> out.fn, args |-> out.args,
                                                  slot |-> 1, orphan |-> FALSE]>>,
                          !.trace.calls = Append(@, node.id)]

\* executeFromNode from its start to the loop
startExecuteFromNode(w, ns, conns, nodeId) ==
    fromNextNode([w EXCEPT !.engine = [NoEngine EXCEPT !.nodes = ns, !.connections = conns,
                                                      !.order = relevantNodes(ns, conns, nodeId)],
                           !.executionResult = NoResult])

InitFrom ==
    /\ \E n \in 1..MaxNodes : nodes \in CanvasNodes(n)
    /\ connections \in CanvasConnections(nodes)
    /\ InitRun
    /\ probe = NoProbe

\* new WorkflowEngine(nodes, connections, onNodeUpdate).executeFromNode(nodeId)
ExecuteFromNode ==
    /\ engine.pc = "none"
    /\ \E i \in 1..Len(nodes) :
          /\ probe' = [done |-> TRUE, args |-> [nodeId |-> nodes[i].id], result |-> <<>>]
          /\ Becomes(startExecuteFromNode(World, nodes, connections, nodes[i].id))
    /\ UNCHANGED <<editor, connections, cacheEnabled, before, validation, execOrder>>

\* the next iteration of the loop of executeFromNode
FromProcessNode ==
    /\ engine.pc = "loop"
    /\ Becomes(fromProcessNode(World, NodeById(engine.nodes, engine.order[engine.pos])))
    /\ UNCHANGED <<editor, probe, connections, cacheEnabled, before, validation, execOrder>>

\* the backend call of the node in flight resolves with an image
FromBackendReturn ==
    /\ engine.pc = "await"
    /\ \E img \in BackendImages :
          Becomes(fromCompleteNode(Settled, NodeById(engine.nodes, engine.order[engine.pos]), img))
    /\ UNCHANGED <<editor, probe, connections, cacheEnabled, before, validation, execOrder>>

\* the backend call of the node in flight rejects
FromBackendThrow ==
    /\ engine.pc = "await"
    /\ Becomes(fromFailNode(Settled, NodeById(engine.nodes, engine.order[engine.pos]),
                            BackendError))
    /\ UNCHANGED <<editor, probe, connections, cacheEnabled, before, validation, execOrder>>

NextFrom ==
    \/ ExecuteFromNode
    \/ FromProcessNode
    \/ FromBackendReturn
    \/ FromBackendThrow

SpecFrom == InitFrom /\ [][NextFrom]_vars

-----------------------------------------------------------------------------
(* Runs of a batch-generate node: fed by a text-array node, or standing     *)
(* alone in useVariables mode with its own prompt list; up to MaxPrompts    *)
(* prompts, one of which may be blank, and a parallelLimit up to            *)
(* MaxParallel.                                                             *)

PromptLetters == <<"a", "b", "c", "d", "e", "f", "g">>

\* the prompt lists: n distinct prompts, and the same with a blank line somewhere
BatchPrompts ==
    LET plain(n) == [k \in 1..n |-> Str(<<PromptLetters[k]>>)]
    IN  {plain(n) : n \in 0..MaxPrompts}
        \cup {SubSeq(plain(nk[1]), 1, nk[2]) \o <<Str(<<" ">>)>>
                  \o SubSeq(plain(nk[1]), nk[2] + 1, nk[1]) :
                 nk \in {x \in (1..MaxPrompts) \X (0..MaxPrompts) : x[2] <= x[1]}}

\* a text-array node feeding a batch-generate node
BatchFed(prompts, limit) ==
    handleConfigChange(
        handleConfigChange(<<createNode(1, "TEXT_ARRAY_INPUT"), createNode(2, "BATCH_GENERATE")>>,
                           1, "prompts", Arr(prompts)),
        2, "parallelLimit", Num(limit))

\* a batch-generate node on its own, in useVariables mode without a template
BatchAlone(prompts, limit) ==
    handleConfigChange(
        handleConfigChange(
            handleConfigChange(<<createNode(1, "BATCH_GENERATE")>>, 1, "useVariables", True),
            1, "prompts", Arr(prompts)),
        1, "parallelLimit", Num(limit))

InitBatch ==
    /\ \E prompts \in BatchPrompts, limit \in 1..MaxParallel :
          \/ /\ nodes = BatchFed(prompts, limit)
             /\ connections = <<Conn(1, 1, nodes[1].outputs[1].id, 2, nodes[2].inputs[1].id)>>
          \/ /\ nodes = BatchAlone(prompts, limit)
             /\ connections = <<>>
    /\ InitRun
    /\ probe = NoProbe

\* the image the backend makes for a prompt
BackendImageFor(prompt) == Str(<<"d", "a", "t", "a", ":">> \o prompt.s)

\* a call of the chunk awaited resolves with its image
BatchReturn ==
    /\ engine.pc = "awaitAll"
    /\ \E k \in 1..Len(backend.pending) :
          /\ ~backend.pending[k].orphan
          /\ Becomes(batchResolve(World, NodeById(engine.nodes, engine.order[engine.pos]),
                                  backend.pending[k].slot,
                                  BackendImageFor(backend.pending[k].args[1])))
    /\ UNCHANGED <<editor, probe, connections, cacheEnabled, before, validation, execOrder>>

\* a call of the chunk awaited rejects
BatchThrow ==
    /\ engine.pc = "awaitAll"
    /\ \E k \in 1..Len(backend.pending) :
          /\ ~backend.pending[k].orphan
          /\ Becomes(batchReject(World, NodeById(engine.nodes, engine.order[engine.pos]),
                                 backend.pending[k].slot, BackendError))
    /\ UNCHANGED <<editor, probe, connections, cacheEnabled, before, validation, execOrder>>

\* a call left in flight by a rejected chunk settles; nobody awaits it
OrphanSettle ==
    /\ \E k \in 1..Len(backend.pending) :
          /\ backend.pending[k].orphan
          /\ backend' = [backend EXCEPT !.pending =
                            SubSeq(@, 1, k - 1) \o SubSeq(@, k + 1, Len(@))]
    /\ UNCHANGED <<editor, probe, nodes, connections, isExecuting, executionResult, cacheEnabled,
                   engine, cache, trace, before, validation, execOrder>>

\* the first press of "Run Workflow" after the canvas was built
HandleExecuteFirst ==
    /\ before.runs = 0
    /\ HandleExecute

NextBatch ==
    \/ HandleExecuteFirst
    \/ ProcessNode
    \/ BatchReturn
    \/ BatchThrow
    \/ OrphanSettle

SpecBatch == InitBatch /\ [][NextBatch]_vars

-----------------------------------------------------------------------------
(* One run of any canvas to its end: the canvases of Spec, and batch        *)
(* canvases whose parallelLimit may be zero, negative or larger than the    *)
(* number of prompts.  The continuations of execute run as soon as what     *)
(* they await has settled, and every backend call settles.                  *)

ParallelLimits == (0 - 1)..MaxParallel

InitTerminate ==
    /\ \/ \E prompts \in BatchPrompts, limit \in ParallelLimits :
             \/ /\ nodes = BatchFed(prompts, limit)
                /\ connections = <<Conn(1, 1, nodes[1].outputs[1].id, 2, nodes[2].inputs[1].id)>>
             \/ /\ nodes = BatchAlone(prompts, limit)
                /\ connections = <<>>
       \/ /\ \E n \in 1..MaxNodes : nodes \in CanvasNodes(n)
          /\ connections \in CanvasConnections(nodes)
    /\ InitRun
    /\ probe = NoProbe

\* the await on Promise.all of a chunk without prompts is over
BatchEmptyResolve ==
    /\ engine.pc = "awaitAll"
    /\ engine.batch.settled = <<>>
    /\ Becomes(batchResolveEmpty(World, NodeById(engine.nodes, engine.order[engine.pos])))
    /\ UNCHANGED <<editor, probe, connections, cacheEnabled, before, validation, execOrder>>

NextTerminate ==
    \/ HandleExecuteFirst
    \/ ProcessNode
    \/ BackendReturn
    \/ BackendThrow
    \/ BatchReturn
    \/ BatchThrow
    \/ OrphanSettle
    \/ BatchEmptyResolve

\* WF_vars(ProcessNode) with ENABLED <<ProcessNode>>_vars written out: the action can
\* be taken whenever the loop is at its head, and each of its steps emits an update
FairProcessNode == []<>(engine.pc # "loop") \/ []<><<ProcessNode>>_vars

\* WF_vars(BackendReturn \/ BackendThrow) written out likewise: the call awaited settles
FairBackend == []<>(engine.pc # "await") \/ []<><<BackendReturn \/ BackendThrow>>_vars

\* WF_vars(BatchReturn \/ BatchThrow) written out likewise: a call of the chunk awaited
\* settles
FairBatch ==
    \/ []<>(~(engine.pc = "awaitAll"
                /\ \E k \in 1..Len(backend.pending) : ~backend.pending[k].orphan))
    \/ []<><<BatchReturn \/ BatchThrow>>_vars

SpecTerminate ==
    /\ InitTerminate
    /\ [][NextTerminate]_vars
    /\ FairProcessNode
    /\ FairBackend
    /\ FairBatch
    /\ WF_vars(BatchEmptyResolve)

-----------------------------------------------------------------------------
(* The GENERATE case of executeNode applied to one generate node: the value *)
(* its prompt input receives, its literal prompt, its reference input.      *)

\* what the node feeding the prompt input may have produced (Undefined: not connected)
ConnectedPrompts ==
    {Undefined, Str(<<>>), Str(<<" ">>), Str(<<" ", " ">>), Str(<<"a">>), Str(<<" ", "a">>),
     Str(<<"b">>)}

\* node.config.prompt (Undefined: the key is missing)
LiteralPrompts ==
    {Undefined, Str(<<>>), Str(<<" ">>), Str(<<"a">>), Str(<<"a", " ">>), Str(<<"b">>)}

ConnectedReferences == {Undefined, Null, Str(Chars("data:i"))}

\* the Map getNodeInputs hands to executeNode: a port with no value has no entry
InputsOf(node, values) ==
    LET all == [i \in 1..Len(node.inputs) |-> Entry(node.inputs[i].id, values[i])]
    IN  SelectSeq(all, LAMBDA e : e.v.t # "undefined")

InitGenerate ==
    /\ nodes = <<>>
    /\ connections = <<>>
    /\ InitRun
    /\ \E c \in ConnectedPrompts, l \in LiteralPrompts, r \in ConnectedReferences :
          probe = [done |-> FALSE,
                   args |-> [connected |-> c, literal |-> l, reference |-> r],
                   result |-> <<>>]

\* executeNode(node, inputs) for a generate node, up to the call of the backend
ExecuteGenerate ==
    /\ ~probe.done
    /\ LET node == handleConfigChange(<<createNode(1, "GENERATE")>>, 1, "prompt",
                                      probe.args.literal)[1]
           inputs == InputsOf(node, <<probe.args.connected, probe.args.reference>>)
       IN  probe' = [probe EXCEPT !.done = TRUE, !.result = <<executeGenerate(node, inputs)>>]
    /\ UNCHANGED <<nodes, connections, isExecuting, executionResult, cacheEnabled, engine,
                   cache, backend, trace, before, validation, execOrder, editor>>

NextGenerate == ExecuteGenerate

SpecGenerate == InitGenerate /\ [][NextGenerate]_vars

-----------------------------------------------------------------------------
(* The COMPARE_GRID case of executeNode applied to one compare-grid node:   *)
(* the value its images input receives and its configured selection index.  *)

GridImages == {Str(Chars("data:i")), Str(Chars("data:j"))}

\* what the images input may receive: nothing, or an array of at most MaxImages images
ConnectedImages == {Undefined} \cup {Arr(s) : s \in SeqsUpTo(GridImages, MaxImages)}

\* node.config.selectedIndex
SelectedIndexes == {Undefined, Null} \cup {Num(k) : k \in (0 - 1)..MaxImages}

InitCompare ==
    /\ nodes = <<>>
    /\ connections = <<>>
    /\ InitRun
    /\ \E images \in ConnectedImages, index \in SelectedIndexes :
          probe = [done |-> FALSE,
                   args |-> [images |-> images, selectedIndex |-> index],
                   result |-> <<>>]

\* executeNode(node, inputs) for a compare-grid node
ExecuteCompareGrid ==
    /\ ~probe.done
    /\ LET node == handleConfigChange(<<createNode(1, "COMPARE_GRID")>>, 1, "selectedIndex",
                                      probe.args.selectedIndex)[1]
           inputs == InputsOf(node, <<probe.args.images>>)
       IN  probe' = [probe EXCEPT !.done = TRUE, !.result = <<executeNode(node, inputs)>>]
    /\ UNCHANGED <<nodes, connections, isExecuting, executionResult, cacheEnabled, engine,
                   cache, backend, trace, before, validation, execOrder, editor>>

NextCompare == ExecuteCompareGrid

SpecCompare == InitCompare /\ [][NextCompare]_vars

-----------------------------------------------------------------------------
(* Edits made while a run is in flight.  execute only gives up the thread   *)
(* while it awaits the backend, so that is when an event handler can run.   *)

\* the properties panel changes the literal of a node at any time the page handles
\* events: between runs, or while the run awaits a backend call
HandleConfigChangeLive ==
    /\ isExecuting => engine.pc = "await"
    /\ before.edits < MaxEdits
    /\ \E i \in 1..Len(nodes) :
         \E v \in EditValues(nodes[i].type) :
            /\ ConfigGet(nodes[i].config, LiteralKey(nodes[i].type)) # v
            /\ nodes' = handleConfigChange(nodes, nodes[i].id, LiteralKey(nodes[i].type), v)
            /\ probe' = [done |-> TRUE,
                         args |-> [nodeId |-> nodes[i].id, key |-> LiteralKey(nodes[i].type),
                                   value |-> v, running |-> isExecuting],
                         result |-> <<>>]
    /\ before' = [before EXCEPT !.edits = @ + 1]
    /\ UNCHANGED <<editor, connections, isExecuting, executionResult, cacheEnabled, engine, cache,
                   backend, trace, validation, execOrder>>

NextLive ==
    \/ HandleExecute
    \/ ProcessNode
    \/ BackendReturn
    \/ BackendThrow
    \/ HandleConfigChangeLive

SpecLive == InitEdit /\ [][NextLive]_vars

-----------------------------------------------------------------------------
(* Runs on canvases whose text literals may hold a character outside the    *)
(* Latin1 range (an emoji typed into a text or prompt field).               *)

Sparkles == Str(<<"U+2728">>)

UnicodePalette ==
    <<[type |-> "TEXT_INPUT", literal |-> Str(Chars("a"))],
      [type |-> "TEXT_INPUT", literal |-> Sparkles],
      [type |-> "GENERATE", literal |-> Str(<<>>)],
      [type |-> "GENERATE", literal |-> Sparkles],
      [type |-> "OUTPUT", literal |-> Undefined]>>

\* the node lists of length n over the palette, as CanvasNodes makes them
UnicodeNodes(n) ==
    {[i \in 1..n |-> ConfiguredNode(i, UnicodePalette[pick[i]])] :
        pick \in {f \in [1..n -> 1..Len(UnicodePalette)] : \A i \in 1..(n - 1) : f[i] < f[i + 1]}}

InitUnicode ==
    /\ \E n \in 1..MaxNodes : nodes \in UnicodeNodes(n)
    /\ connections \in CanvasConnections(nodes)
    /\ InitRun
    /\ probe = NoProbe

SpecUnicode == InitUnicode /\ [][Next]_vars

-----------------------------------------------------------------------------
(* getNodeInputs applied to a node fed by one other node: node 1 produces,  *)
(* node 2 consumes, each input port of node 2 is unconnected or connected   *)
(* to an output port of node 1, and node 1 has or has not run yet.          *)

SourceKinds == {"IMAGE_INPUT", "TEXT_INPUT", "TEXT_ARRAY_INPUT", "GENERATE", "BATCH_GENERATE",
                "ANALYZE", "COMPARE_GRID"}

TargetKinds == {"GENERATE", "BATCH_GENERATE", "ANALYZE", "COMPARE_GRID", "OUTPUT"}

\* the results executeNode can return for a node of each kind
SourceResults(type) ==
    CASE type = "IMAGE_INPUT" -> {Null, Str(Chars("data:i"))}
      [] type = "TEXT_INPUT"  -> {Str(<<>>), Str(<<"a">>)}
      [] type = "TEXT_ARRAY_INPUT" -> {Arr(<<Str(<<"a">>)>>)}
      [] type = "GENERATE"    -> BackendImages
      [] type = "BATCH_GENERATE" -> {Arr(<<img>>) : img \in BackendImages}
      [] type = "ANALYZE"     -> {analyzeBundle(Arr(<<Str(<<"b">>)>>), Str(<<"a">>), Str(<<"b">>))}
      [] type = "COMPARE_GRID" ->
           {LET node == handleConfigChange(<<createNode(1, "COMPARE_GRID")>>, 1,
                                           "selectedIndex", index)[1]
                images == Arr(<<Str(Chars("data:i")), Str(Chars("data:j"))>>)
            IN  executeCompareGrid(node, InputsOf(node, <<images>>)).value :
               index \in {Null, Num(1)}}

\* handlePortDrop accepts a drag from the output to the input or from the input to the
\* output when arePortsCompatible(type of the start port, type of the port dropped on)
Connectable(outputType, inputType) ==
    arePortsCompatible(outputType, inputType) \/ arePortsCompatible(inputType, outputType)

RECURSIVE FeedsFrom(_, _, _)
\* the connection lists from `source` to the input ports of `target` from port i on
FeedsFrom(source, target, i) ==
    IF i > Len(target.inputs) THEN {<<>>}
    ELSE LET rest == FeedsFrom(source, target, i + 1)
         IN  rest \cup
             {<<Conn(i, source.id, source.outputs[o].id, target.id, target.inputs[i].id)>> \o cs :
                 o \in {q \in 1..Len(source.outputs) :
                           Connectable(source.outputs[q].type, target.inputs[i].type)},
                 cs \in rest}

InitInputs ==
    /\ \E st \in SourceKinds, tt \in TargetKinds :
          /\ nodes = <<createNode(1, st), createNode(2, tt)>>
          /\ connections \in FeedsFrom(nodes[1], nodes[2], 1)
          /\ \E r \in SourceResults(st), ran \in BOOLEAN :
                probe = [done |-> FALSE,
                         args |-> [nodeResults |-> IF ran THEN <<Entry(1, r)>> ELSE <<>>],
                         result |-> <<>>]
    /\ InitRun

\* this.getNodeInputs(node) for node 2
GetNodeInputs ==
    /\ ~probe.done
    /\ probe' = [probe EXCEPT !.done = TRUE,
                              !.result = getNodeInputs(nodes[2], connections, probe.args.nodeResults)]
    /\ UNCHANGED <<nodes, connections, isExecuting, executionResult, cacheEnabled, engine,
                   cache, backend, trace, before, validation, execOrder, editor>>

NextInputs == GetNodeInputs

SpecInputs == InitInputs /\ [][NextInputs]_vars

-----------------------------------------------------------------------------
(* Properties of the scheduler and of cycle detection (SpecGraph)           *)

Edges(conns) == {<<conns[i].sourceNodeId, conns[i].targetNodeId>> : i \in 1..Len(conns)}

RECURSIVE ReachableFrom(_, _)
\* the nodes reachable from the set S along edges E, S included
ReachableFrom(E, S) ==
    LET more == S \cup {e[2] : e \in {x \in E : x[1] \in S}}
    IN  IF more = S THEN S ELSE ReachableFrom(E, more)

\* u reaches v along at least one connection
Reaches(conns, u, v) ==
    v \in ReachableFrom(Edges(conns), {e[2] : e \in {x \in Edges(conns) : x[1] = u}})

HasDirectedCycle(ns, conns) == \E id \in NodeIds(ns) : Reaches(conns, id, id)

PositionsOf(order, id) == {k \in 1..Len(order) : order[k] = id}

IsTopologicalOrder(order, ns, conns) ==
    /\ \A id \in NodeIds(ns) : Cardinality(PositionsOf(order, id)) = 1
    /\ Len(order) = Len(ns)
    /\ \A i \in 1..Len(conns) :
          \A a \in PositionsOf(order, conns[i].sourceNodeId) :
             \A b \in PositionsOf(order, conns[i].targetNodeId) : a < b

\* C1: for every acyclic graph getExecutionOrder returns every node exactly once, and
\* the source of every connection before its target.
C1_OrderIsTopological ==
    (execOrder.done /\ ~HasDirectedCycle(nodes, connections))
        => IsTopologicalOrder(execOrder.order, nodes, connections)

\* an acyclic graph with two connections between the same pair of nodes and fan-out
C1_Witness ==
    /\ execOrder.done
    /\ ~HasDirectedCycle(nodes, connections)
    /\ Len(nodes) = 3
    /\ \E i, j, k \in 1..Len(connections) :
          /\ i # j
          /\ Edges(<<connections[i]>>) = Edges(<<connections[j]>>)
          /\ connections[k].sourceNodeId = connections[i].sourceNodeId
          /\ connections[k].targetNodeId # connections[i].targetNodeId
    /\ IsTopologicalOrder(execOrder.order, nodes, connections)

\* C2: validate reports valid=false with the cycle error exactly for the graphs that
\* contain a directed cycle, wherever the cycle lies.
C2_CycleReported ==
    validation.done =>
        /\ (CycleError \in Range(validation.errors)) <=> HasDirectedCycle(nodes, connections)
        /\ HasDirectedCycle(nodes, connections) => ~validation.valid

\* a cycle among nodes the first node of the list does not reach
C2_Witness ==
    /\ validation.done
    /\ Len(nodes) = 3
    /\ Reaches(connections, 2, 3) /\ Reaches(connections, 3, 2)
    /\ ~Reaches(connections, 1, 2)
    /\ CycleError \in Range(validation.errors)
    /\ ~validation.valid

-----------------------------------------------------------------------------
(* Properties of the run controller.  `trace` holds what the run in flight  *)
(* (or the last run) did, `before` what the canvas and the cache were when  *)
(* the run was requested and what the run before it did.                    *)

RunPassedValidation == engine.pc \in {"loop", "await", "done"}

RunFailedAtNode == engine.pc = "done" /\ executionResult.set /\ ~executionResult.success

\* the position of node id in the order of the run
OrderPos(id) == CHOOSE k \in 1..Len(engine.order) : engine.order[k] = id

\* the node has been through the loop body: it was completed, or it failed
Finished(id) ==
    \/ OrderPos(id) < engine.pos
    \/ OrderPos(id) = engine.pos /\ engine.pc = "done"

Count(s, x) == Cardinality({k \in 1..Len(s) : s[k] = x})

UpdatesOf(updates, id) == SelectSeq(updates, LAMBDA u : u.id = id)

StatusesOf(updates, id) ==
    LET us == UpdatesOf(updates, id) IN [k \in 1..Len(us) |-> us[k].status]

\* the inputs execute resolved for a node of the run: its sources' results do not change
\* once they are stored
ResolvedInputs(node) == getNodeInputs(node, engine.connections, engine.nodeResults)

\* the validator's errors for the graph the run was given, joined with "; "
JoinedValidationErrors == JoinErrors(validate(engine.nodes, engine.connections).errors, 1)

\* C3 as stated: a refused run reports the joined errors and nothing happens, no node's
\* status differs from its status when the run was requested.
C3_Original ==
    engine.pc = "refused" =>
        /\ executionResult = Failure(JoinedValidationErrors)
        /\ ~isExecuting
        /\ trace = EmptyTrace
        /\ backend.pending = <<>>
        /\ cache = before.cache
        /\ \A i \in 1..Len(nodes) : nodes[i].status = before.status[i]

\* C3: a run is refused exactly when validation fails; it ends at once with success=false
\* and the validator's errors joined as one message, the engine invokes no update
\* callback, no executor and no backend call and does not touch the cache; the reset
\* handleExecute makes before it starts the engine leaves every node idle.
C3_Refused ==
    /\ (before.runs > 0 /\ ~validate(engine.nodes, engine.connections).valid)
          <=> engine.pc = "refused"
    /\ engine.pc = "refused" =>
          /\ executionResult = Failure(JoinedValidationErrors)
          /\ ~isExecuting
          /\ trace = EmptyTrace
          /\ backend.pending = <<>>
          /\ cache = before.cache
          /\ \A i \in 1..Len(nodes) : nodes[i].status = "idle"

\* a run refused on a canvas a node of which was complete from the run before
C3_Witness ==
    /\ engine.pc = "refused"
    /\ executionResult = Failure(JoinedValidationErrors)
    /\ \E i \in 1..Len(nodes) : before.status[i] = "complete" /\ nodes[i].status = "idle"

\* the second of two runs with caching enabled has ended, the first having succeeded
SecondCachedRunEnded ==
    /\ before.runs = 2
    /\ engine.pc = "done"
    /\ engine.useCache
    /\ before.prev.useCache
    /\ before.prev.result = Success

\* the result the run before reported for node id
ResultBefore(id) ==
    LET us == SelectSeq(before.prev.trace.updates, LAMBDA u : u.id = id /\ u.status = "complete")
    IN  us[Len(us)].result

\* C4 as stated: the second of two cached runs of the same graph calls neither executor
\* nor backend, so that the backend is called once per generate node over both runs, and
\* reports every node complete with the cache flag set and the result of the first run.
C4_Original ==
    SecondCachedRunEnded =>
        /\ trace.executor = <<>>
        /\ trace.calls = <<>>
        /\ \A i \in 1..Len(engine.nodes) :
              /\ Count(before.prev.trace.calls, engine.nodes[i].id)
                    = (IF engine.nodes[i].type = "GENERATE" THEN 1 ELSE 0)
              /\ UpdatesOf(trace.updates, engine.nodes[i].id)
                    = <<Update(engine.nodes[i].id, "running", Undefined, Undefined),
                        Update(engine.nodes[i].id, "complete", True,
                               ResultBefore(engine.nodes[i].id))>>

\* the literal the user gave a node
LiteralOf(node) == ConfigGet(node.config, LiteralKey(node.type))

\* C5 as stated: a node whose configuration was changed between two cached runs gets
\* another hash, misses the cache in the second run, is executed again and is not
\* reported with the cached result of the old configuration.
C5_Original ==
    SecondCachedRunEnded =>
        \A i \in 1..Len(engine.nodes) :
            LET new == engine.nodes[i]
                old == before.prev.nodes[i]
            IN  (/\ LiteralKey(new.type) # ""
                 /\ LiteralOf(new) # LiteralOf(old)
                 /\ Finished(new.id)) =>
                    /\ hashInputs(new, ResolvedInputs(new)).hash
                          # hashInputs(old, ResolvedInputs(new)).hash
                    /\ [id |-> new.id, hit |-> TRUE] \notin Range(trace.gets)
                    /\ Count(trace.executor, new.id) = 1
                    /\ \A k \in 1..Len(trace.updates) :
                          trace.updates[k].id = new.id => trace.updates[k].cached # True

\* the node of the run at position engine.pos of the order
NodeAtPos == NodeById(engine.nodes, engine.order[engine.pos])

\* the message of the failure of a node: what its executor threw, or else what the
\* backend call it made threw
FailureMessage(node) ==
    LET out == executeNode(node, ResolvedInputs(node))
    IN  IF out.kind = "throw" THEN out.message ELSE BackendError

ErrorUpdates == {k \in 1..Len(trace.updates) : trace.updates[k].status = "error"}

\* C6: once a node has failed, the error update with the failure's message is the last
\* update of the run, the run has ended with success=false and the message
\* 'Failed at <node type>: <message>', no node later in the order has received an update
\* or had its executor or the backend called, and the nodes before it are complete.
C6_FailureAborts ==
    ErrorUpdates # {} =>
        /\ engine.pc = "done"
        /\ engine.pos \in 1..Len(engine.order)
        /\ ~isExecuting
        /\ backend.pending = <<>>
        /\ ErrorUpdates = {Len(trace.updates)}
        /\ trace.updates[Len(trace.updates)].id = NodeAtPos.id
        /\ NodeById(nodes, NodeAtPos.id).status = "error"
        /\ NodeById(nodes, NodeAtPos.id).error = FailureMessage(NodeAtPos)
        /\ executionResult
              = Failure(<<"Failed at ", NodeAtPos.type, ": ">> \o FailureMessage(NodeAtPos))
        /\ \A k \in (engine.pos + 1)..Len(engine.order) :
              /\ UpdatesOf(trace.updates, engine.order[k]) = <<>>
              /\ Count(trace.executor, engine.order[k]) = 0
              /\ Count(trace.calls, engine.order[k]) = 0
              /\ \A g \in Range(trace.gets) : g.id # engine.order[k]
        /\ \A k \in 1..(engine.pos - 1) :
              NodeById(nodes, engine.order[k]).status = "complete"

\* the second of three nodes fails in the backend: one node is complete, one is never reached
C6_Witness ==
    /\ ErrorUpdates # {}
    /\ Len(engine.order) = 3
    /\ engine.pos = 2
    /\ Count(trace.calls, NodeAtPos.id) = 1
    /\ executionResult = Failure(<<"Failed at ", "GENERATE", ": ">> \o BackendError)
    /\ NodeById(nodes, engine.order[1]).status = "complete"
    /\ NodeById(nodes, engine.order[3]).status = "idle"

\* C7: in a run that has passed validation every node has received no update yet, or
\* running, or running followed by one of complete and error; a node the loop is done
\* with has received both, the node whose backend call is in flight running only, and a
\* node not yet reached none.
C7_Lifecycle ==
    RunPassedValidation =>
        \A id \in NodeIds(engine.nodes) :
            LET st == StatusesOf(trace.updates, id)
            IN  /\ st \in {<<>>, <<"running">>, <<"running", "complete">>, <<"running", "error">>}
                /\ Finished(id) => Len(st) = 2
                /\ (OrderPos(id) = engine.pos /\ engine.pc = "await") => st = <<"running">>
                /\ (OrderPos(id) = engine.pos /\ engine.pc = "loop") => st = <<>>
                /\ OrderPos(id) > engine.pos => st = <<>>

\* a run of three nodes in which one is completed from the cache and a later one fails
C7_Witness ==
    /\ engine.pc = "done"
    /\ Len(engine.order) = 3
    /\ \E i, j \in 1..Len(trace.updates) :
          /\ i < j
          /\ trace.updates[i].status = "complete" /\ trace.updates[i].cached = True
          /\ trace.updates[j].status = "error"
    /\ \A id \in NodeIds(engine.nodes) :
          Finished(id) => StatusesOf(trace.updates, id)
                              \in {<<"running", "complete">>, <<"running", "error">>}

RunningUpdates == SelectSeq(trace.updates, LAMBDA u : u.status = "running")

\* C8: at any moment at most one node has status running and at most one backend call is
\* in flight; the nodes are reported running in the order of the run, one of the
\* topological orders of the graph, and each only after every node feeding it through a
\* connection has been reported complete in the same run.
C8_OneAtATime ==
    /\ Cardinality({i \in 1..Len(nodes) : nodes[i].status = "running"}) <= 1
    /\ Len(backend.pending) <= 1
    /\ RunPassedValidation =>
          /\ IsTopologicalOrder(engine.order, engine.nodes, engine.connections)
          /\ [k \in 1..Len(RunningUpdates) |-> RunningUpdates[k].id]
                = SubSeq(engine.order, 1, Len(RunningUpdates))
          /\ \A k \in 1..Len(trace.updates) :
                trace.updates[k].status = "running" =>
                    /\ k > 1 => trace.updates[k - 1].status = "complete"
                    /\ \A c \in Range(engine.connections) :
                          c.targetNodeId = trace.updates[k].id =>
                              \E j \in 1..(k - 1) :
                                  /\ trace.updates[j].id = c.sourceNodeId
                                  /\ trace.updates[j].status = "complete"

\* two nodes with no connection between them and a third node fed by the later one: the
\* second is running, its backend call in flight, the first is complete
C8_Witness ==
    /\ engine.pc = "await"
    /\ engine.pos = 2
    /\ Len(engine.order) = 3
    /\ ~Reaches(engine.connections, engine.order[1], engine.order[2])
    /\ Reaches(engine.connections, engine.order[2], engine.order[3])
    /\ NodeById(nodes, engine.order[1]).status = "complete"
    /\ NodeById(nodes, engine.order[2]).status = "running"
    /\ NodeById(nodes, engine.order[3]).status = "idle"

\* the cache held, when the run was requested, an entry for the node under the hash of
\* the node's resolved inputs; only the node's own pass through the loop writes its entry
CacheHeld(node) ==
    /\ MapHas(before.cache.map, node.id)
    /\ MapGet(before.cache.map, node.id).inputHash = hashInputs(node, ResolvedInputs(node)).hash

\* C9 as stated: with caching enabled, a node whose entry in the cache carries the hash of
\* its resolved inputs is not executed, its cached value becomes its in-memory result and
\* complete is emitted with the cache flag true; any other node is executed exactly once
\* and, on success, its result is written under that hash and complete is emitted with
\* the cache flag false.
C9_Original ==
    (RunPassedValidation /\ engine.useCache) =>
        \A i \in 1..Len(engine.nodes) :
            LET node == engine.nodes[i]
                h    == hashInputs(node, ResolvedInputs(node)).hash
            IN  Finished(node.id) =>
                  IF CacheHeld(node)
                  THEN /\ Count(trace.executor, node.id) = 0
                       /\ MapGet(engine.nodeResults, node.id)
                             = MapGet(before.cache.map, node.id).result
                       /\ UpdatesOf(trace.updates, node.id)[2]
                             = Update(node.id, "complete", True,
                                      displayResult(MapGet(before.cache.map, node.id).result))
                       /\ MapGet(cache.map, node.id) = MapGet(before.cache.map, node.id)
                  ELSE /\ Count(trace.executor, node.id) = 1
                       /\ NodeById(nodes, node.id).status = "complete" =>
                             /\ MapHas(cache.map, node.id)
                             /\ MapGet(cache.map, node.id).inputHash = h
                             /\ MapGet(cache.map, node.id).result
                                   = MapGet(engine.nodeResults, node.id)
                             /\ UpdatesOf(trace.updates, node.id)[2]
                                   = Update(node.id, "complete", False,
                                            displayResult(MapGet(engine.nodeResults, node.id)))

\* the index in the node list of the node at position k of the order
IndexAtPos(k) == CHOOSE i \in 1..Len(nodes) : nodes[i].id = engine.order[k]

\* C10: after a run aborted by the failure of a node, the nodes before it in the order
\* are complete, the node itself is the only one in status error, and every node after
\* it is idle, whatever the statuses were when the run was requested.
C10_AbortStatuses ==
    RunFailedAtNode =>
        /\ engine.pos \in 1..Len(engine.order)
        /\ \A k \in 1..Len(engine.order) :
              nodes[IndexAtPos(k)].status
                 = (IF k < engine.pos THEN "complete"
                    ELSE IF k = engine.pos THEN "error" ELSE "idle")
        /\ Cardinality({i \in 1..Len(nodes) : nodes[i].status = "error"}) = 1

\* a run that fails at its second node while the node after it was complete or in error
\* from the run before
C10_Witness ==
    /\ RunFailedAtNode
    /\ before.runs = 2
    /\ engine.pos = 2
    /\ Len(engine.order) = 3
    /\ before.status[IndexAtPos(3)] \in {"complete", "error"}
    /\ nodes[IndexAtPos(1)].status = "complete"
    /\ nodes[IndexAtPos(2)].status = "error"
    /\ nodes[IndexAtPos(3)].status = "idle"

-----------------------------------------------------------------------------
(* Properties of expandVariables (SpecExpand)                               *)

RECURSIVE ProductFrom(_, _)
\* the combinations of the values of the variables d[i..], as lists of [k, v], the
\* variable declared first varying slowest
ProductFrom(d, i) ==
    IF i > Len(d) THEN <<<<>>>>
    ELSE LET rest == ProductFrom(d, i + 1)
         IN  [k \in 1..(Len(d[i].v) * Len(rest)) |->
                <<[k |-> d[i].k, v |-> d[i].v[((k - 1) \div Len(rest)) + 1]]>>
                \o rest[((k - 1) % Len(rest)) + 1]]

RECURSIVE SubstituteFrom(_, _, _)
\* the template from position i on, every {{name}} of a variable of the combination
\* replaced by the value the combination gives it
SubstituteFrom(template, combo, i) ==
    IF i > Len(template) THEN <<>>
    ELSE IF \E e \in Range(combo) : StartsAt(template, i, Placeholder(e.k))
         THEN LET e == CHOOSE x \in Range(combo) : StartsAt(template, i, Placeholder(x.k))
              IN  e.v \o SubstituteFrom(template, combo, i + Len(Placeholder(e.k)))
    ELSE <<template[i]>> \o SubstituteFrom(template, combo, i + 1)

\* C12 as stated: with at least one declared variable expandVariables returns, for each
\* element of the Cartesian product of the value lists taken with the first declared
\* variable varying slowest, the template with every {{name}} replaced by that
\* combination's value.
C12_Original ==
    (probe.done /\ Len(probe.args.declared) >= 1) =>
        LET combos == ProductFrom(probe.args.declared, 1)
        IN  probe.result
               = [k \in 1..Len(combos) |-> SubstituteFrom(probe.args.template, combos[k], 1)]

-----------------------------------------------------------------------------
(* Properties of the GENERATE executor (SpecGenerate)                       *)

\* absent, empty or blank
IsBlank(v) == v.t \in {"undefined", "null"} \/ (v.t = "string" /\ Trim(v.s) = <<>>)

\* C20 as stated: whenever the connected prompt is absent, empty or blank and the literal
\* prompt is non-blank, the backend is invoked with the literal prompt; the node fails with
\* the missing-prompt error, without a backend call, only when both the connected and the
\* literal prompt are empty or blank.
C20_Original ==
    probe.done =>
        LET out       == probe.result[1]
            connected == probe.args.connected
            literal   == probe.args.literal
        IN  /\ (IsBlank(connected) /\ ~IsBlank(literal)) =>
                  out.kind = "call" /\ out.args[1] = literal
            /\ out.kind = "throw" =>
                  out = Throw(GenerateNoPrompt) /\ IsBlank(connected) /\ IsBlank(literal)

-----------------------------------------------------------------------------
(* Properties of the required-input check (SpecValidate, SpecGraph)         *)

HasIncoming(node) == \E j \in 1..Len(connections) : connections[j].targetNodeId = node.id

\* a node the required-input check has to report
NeedsInput(node) ==
    /\ Len(node.inputs) > 0
    /\ ~HasIncoming(node)
    /\ ~(node.type = "BATCH_GENERATE" /\ ConfigGet(node.config, "useVariables") = True)
    /\ ~(node.type = "GENERATE" /\ ~IsBlank(ConfigGet(node.config, "prompt")))

\* C14: for an acyclic graph, validate returns one error, naming the node's type, per node
\* that has a declared input, no incoming connection, and is neither a batch-generate node
\* in useVariables mode nor a generate node with a non-blank literal prompt; no other
\* error; valid is true exactly when the list is empty.
C14_RequiredInputs ==
    (validation.done /\ ~HasDirectedCycle(nodes, connections)) =>
        LET missing == SelectSeq(nodes, NeedsInput)
        IN  /\ validation.errors
                  = [k \in 1..Len(missing) |-> RequiredInputError(missing[k].type)]
            /\ validation.valid <=> (validation.errors = <<>>)

\* two nodes are reported, a third one is exempt
C14_Witness ==
    /\ validation.done
    /\ ~HasDirectedCycle(nodes, connections)
    /\ Len(validation.errors) = 2
    /\ \E i \in 1..Len(nodes) : Len(nodes[i].inputs) > 0 /\ ~HasIncoming(nodes[i])
                                   /\ ~NeedsInput(nodes[i])

PromptConnected(node) ==
    \E j \in 1..Len(connections) :
        connections[j].targetNodeId = node.id /\ connections[j].targetPortId = node.inputs[1].id

\* C15 as stated: a graph with a generate node whose prompt input is unconnected and whose
\* literal prompt is empty or blank fails validation with the required-input error naming
\* the generate type, whatever else is connected to the node.
C15_Original ==
    validation.done =>
        \A i \in 1..Len(nodes) :
            (/\ nodes[i].type = "GENERATE"
             /\ ~PromptConnected(nodes[i])
             /\ IsBlank(ConfigGet(nodes[i].config, "prompt"))) =>
                /\ ~validation.valid
                /\ \E k \in 1..Len(validation.errors) :
                      validation.errors[k] = RequiredInputError("GENERATE")

\* C16 as stated: when the graph contains a cycle the error list has exactly one element,
\* the cycle error.
C16_Original ==
    (validation.done /\ HasDirectedCycle(nodes, connections)) => validation.errors = <<CycleError>>

-----------------------------------------------------------------------------
(* Properties of NodeCache (SpecCache)                                      *)

KeysOf(m) == {m[i].k : i \in 1..Len(m)}

\* the position of the last set call for a node id
LastWrite(id) ==
    CHOOSE k \in 1..Len(probe.args.written) :
        /\ probe.args.written[k] = id
        /\ \A j \in (k + 1)..Len(probe.args.written) : probe.args.written[j] # id

\* C13 as stated: after any sequence of set calls the cache holds at most one entry per
\* node id, holding what the last set for that id wrote; the persisted store holds at most
\* 50 entries, the most recently written ones; an entry trimmed from the persisted store
\* is no longer returned by get.
C13_Original ==
    /\ \A i, j \in 1..Len(cache.map) : cache.map[i].k = cache.map[j].k => i = j
    /\ \A i \in 1..Len(cache.map) :
          cache.map[i].v.result = Str(<<Digit(LastWrite(cache.map[i].k) % 10)>>)
    /\ Len(cache.stored) <= MAX_CACHE_SIZE
    /\ KeysOf(cache.stored) \subseteq KeysOf(cache.map)
    /\ \A kept \in KeysOf(cache.stored), trimmed \in KeysOf(cache.map) \ KeysOf(cache.stored) :
          LastWrite(kept) > LastWrite(trimmed)
    /\ \A i \in 1..Len(cache.map) :
          cache.map[i].k \notin KeysOf(cache.stored) =>
              cacheGet(cache, cache.map[i].k, cache.map[i].v.inputHash) = Null

-----------------------------------------------------------------------------
(* Properties of the graph editor (SpecEditor)                              *)

\* C17 as stated: after any sequence of editor operations no two connections share the
\* same (target node id, target port id).
C17_Original ==
    \A i, j \in 1..Len(connections) :
        (/\ connections[i].targetNodeId = connections[j].targetNodeId
         /\ connections[i].targetPortId = connections[j].targetPortId) => i = j

\* C18 as stated: after any sequence of editor operations every connection's source node
\* id and target node id refer to nodes that currently exist.
C18_Original ==
    \A i \in 1..Len(connections) :
        /\ connections[i].sourceNodeId \in NodeIds(nodes)
        /\ connections[i].targetNodeId \in NodeIds(nodes)

-----------------------------------------------------------------------------
(* Properties of executeFromNode (SpecFrom)                                 *)

\* the target and the nodes from which it is reachable along connections
DependencySet ==
    {id \in NodeIds(engine.nodes) : Reaches(engine.connections, id, probe.args.nodeId)}
        \cup {probe.args.nodeId}

FromStarted == probe.done /\ ~HasDirectedCycle(engine.nodes, engine.connections)

\* the connections between nodes that were both executed run forward in trace.executor
ExecutedInDependencyOrder ==
    \A k \in 1..Len(trace.executor) :
        \A i \in 1..Len(engine.connections) :
            engine.connections[i].targetNodeId = trace.executor[k] =>
                \E j \in 1..(k - 1) :
                    /\ trace.executor[j] = engine.connections[i].sourceNodeId
                    /\ StatusesOf(trace.updates, trace.executor[j]) = <<"running", "complete">>

\* C19 as stated: executeFromNode(target) on an acyclic graph executes exactly the target
\* and its transitive dependencies, each once, dependencies first, each node reported
\* running then complete or error; no other node receives a status update.
C19_Original ==
    (FromStarted /\ engine.pc = "done") =>
        /\ Range(trace.executor) = DependencySet
        /\ \A id \in DependencySet : Count(trace.executor, id) = 1
        /\ ExecutedInDependencyOrder
        /\ \A id \in DependencySet :
              StatusesOf(trace.updates, id) \in {<<"running", "complete">>, <<"running", "error">>}
        /\ \A k \in 1..Len(trace.updates) : trace.updates[k].id \in DependencySet

\* C19, amended: executeFromNode(target) on an acyclic graph executes the target and its
\* transitive dependencies, dependencies first, until one of them fails: only nodes of
\* that set are executed or updated, each at most once, each after the nodes feeding it
\* have completed, each reported running then complete or error; a run in which no node
\* fails executes exactly that set and returns success; a node that fails is the last one
\* executed, and the run returns its error message.
C19_FromNode ==
    FromStarted =>
        /\ Range(trace.executor) \subseteq DependencySet
        /\ \A id \in DependencySet : Count(trace.executor, id) <= 1
        /\ ExecutedInDependencyOrder
        /\ \A k \in 1..Len(trace.updates) : trace.updates[k].id \in DependencySet
        /\ \A i \in 1..Len(nodes) :
              nodes[i].id \notin DependencySet => nodes[i].status = "idle"
        /\ \A id \in DependencySet :
              StatusesOf(trace.updates, id)
                  \in {<<>>, <<"running">>, <<"running", "complete">>, <<"running", "error">>}
        /\ \A k \in 1..(Len(trace.executor) - 1) :
              StatusesOf(trace.updates, trace.executor[k]) = <<"running", "complete">>
        /\ engine.pc = "done" =>
              /\ executionResult.set
              /\ executionResult.success =>
                    /\ Range(trace.executor) = DependencySet
                    /\ \A id \in DependencySet :
                          StatusesOf(trace.updates, id) = <<"running", "complete">>
              /\ ~executionResult.success =>
                    /\ trace.executor # <<>>
                    /\ StatusesOf(trace.updates, trace.executor[Len(trace.executor)])
                          = <<"running", "error">>
                    /\ \E i \in 1..Len(nodes) :
                          /\ nodes[i].id = trace.executor[Len(trace.executor)]
                          /\ nodes[i].error = executionResult.error

\* a run over a chain of three nodes has succeeded: the target's dependency of the second
\* degree was executed too
C19_Witness ==
    /\ FromStarted
    /\ engine.pc = "done"
    /\ executionResult.success
    /\ Len(trace.executor) = 3
    /\ \E i \in 1..Len(engine.connections) :
          /\ engine.connections[i].targetNodeId = trace.executor[3]
          /\ engine.connections[i].sourceNodeId = trace.executor[2]
    /\ \A i \in 1..Len(engine.connections) :
          engine.connections[i].targetNodeId = trace.executor[3] =>
              engine.connections[i].sourceNodeId # trace.executor[1]

-----------------------------------------------------------------------------
(* Properties of the chunk loop of batch-generate (SpecBatch)               *)

\* the positions in trace.events of the events of one kind for prompt number x
EventsAt(kind, x) ==
    {p \in 1..Len(trace.events) : trace.events[p].kind = kind /\ trace.events[p].index = x}

DispatchEvents == SelectSeq(trace.events, LAMBDA e : e.kind = "dispatch")

\* the chunk of prompt number x, counted from 0, for parallel limit L
ChunkOf(x, L) == (x - 1) \div L

\* the sizes L, ..., L, (remainder) of the chunks of n prompts
ChunkSizes(n, L) ==
    [c \in 1..((n + L - 1) \div L) |-> IF c * L <= n THEN L ELSE n - (c - 1) * L]

\* the sizes of the runs of dispatch events that follow one another in trace.events
\* with no other event between them
DispatchedSizes ==
    LET starts == {p \in 1..Len(trace.events) :
                      /\ trace.events[p].kind = "dispatch"
                      /\ (p = 1 \/ trace.events[p - 1].kind # "dispatch")}
        endOf(p) == CHOOSE q \in p..Len(trace.events) :
                       /\ \A r \in p..q : trace.events[r].kind = "dispatch"
                       /\ (q = Len(trace.events) \/ trace.events[q + 1].kind # "dispatch")
        nth(k) == CHOOSE p \in starts : Cardinality({q \in starts : q < p}) = k - 1
    IN  [k \in 1..Cardinality(starts) |-> endOf(nth(k)) - nth(k) + 1]

\* the calls of the node's execution that are in flight
InFlight == {k \in 1..Len(backend.pending) : ~backend.pending[k].orphan}

\* the batch-generate node of the canvas and the non-blank prompts it was given
BatchNode == nodes[Len(nodes)]

GivenPrompts ==
    nonBlank(ConfigGet(nodes[1].config, "prompts").a)

\* C11: a batch-generate node with parallel limit L and n non-blank prompts dispatches its
\* backend calls in chunks of sizes L, ..., L, (remainder), in prompt order; no call of a
\* chunk is dispatched before every call of the previous chunks has returned; at most L
\* calls are in flight at once; a node that completes has dispatched all ceil(n/L) chunks
\* and returns n entries, entry i being the result of the call for prompt i, in whatever
\* order the calls of a chunk finished.
C11_Chunks ==
    LET L == NumberOf(ConfigGet(BatchNode.config, "parallelLimit"))
        n == Len(GivenPrompts)
        sizes == DispatchedSizes
    IN  /\ \A j \in 1..Len(DispatchEvents) : DispatchEvents[j].index = j
        /\ Len(sizes) <= Len(ChunkSizes(n, L))
        /\ \A c \in 1..Len(sizes) : c <= Len(ChunkSizes(n, L)) => sizes[c] = ChunkSizes(n, L)[c]
        /\ \A p \in 1..Len(trace.events) :
              trace.events[p].kind = "dispatch" =>
                  \A y \in 1..Len(DispatchEvents) :
                      ChunkOf(y, L) < ChunkOf(trace.events[p].index, L) =>
                          \E q \in EventsAt("return", y) : q < p
        /\ Cardinality(InFlight) <= L
        /\ Len(backend.pending) <= L
        /\ (BatchNode.status = "complete" /\ ~Truthy(ConfigGet(BatchNode.config, "_cached"))) =>
              LET result == MapGet(engine.nodeResults, BatchNode.id)
              IN  /\ sizes = ChunkSizes(n, L)
                  /\ result.t = "array"
                  /\ Len(result.a) = n
                  /\ \A i \in 1..n :
                        /\ result.a[i] = BackendImageFor(GivenPrompts[i])
                        /\ \E q \in EventsAt("return", i) : trace.events[q].image = result.a[i]

\* five prompts at limit 2 went out in chunks of 2, 2, 1 and the node has completed,
\* the second call of the first chunk having returned before the first
C11_Witness ==
    /\ NumberOf(ConfigGet(BatchNode.config, "parallelLimit")) = 2
    /\ Len(GivenPrompts) = 5
    /\ BatchNode.status = "complete"
    /\ DispatchedSizes = <<2, 2, 1>>
    /\ Len(MapGet(engine.nodeResults, BatchNode.id).a) = 5
    /\ \E p \in EventsAt("return", 2), q \in EventsAt("return", 1) : p < q

\* C27 as stated: executeFromNode(target) returns success only if the target itself was
\* executed and reported complete, also when the target lies on a cycle or downstream of
\* one.
C27_Original ==
    (probe.done /\ engine.pc = "done" /\ executionResult.success) =>
        /\ Count(trace.executor, probe.args.nodeId) = 1
        /\ StatusesOf(trace.updates, probe.args.nodeId) = <<"running", "complete">>

\* C21 as stated: a compare-grid node given a non-empty image array returns {images,
\* selected} where selected is images[index] when the configured index is in
\* 0..length-1, and images[0] when the index is absent, null, negative or too large; so
\* selected is always one of the images.
C21_Original ==
    (probe.done /\ LengthOf(probe.args.images) > 0) =>
        LET out    == probe.result[1]
            images == probe.args.images.a
            index  == probe.args.selectedIndex
            inRange == /\ index.t = "number"
                       /\ NumberOf(index) >= 0
                       /\ NumberOf(index) < Len(images)
        IN  /\ out.kind = "return"
            /\ MapGet(out.value.a, "images") = Arr(images)
            /\ MapGet(out.value.a, "selected") =
                   (IF inRange THEN images[NumberOf(index) + 1] ELSE images[1])
            /\ \E k \in 1..Len(images) : MapGet(out.value.a, "selected") = images[k]
\* the connections into input port number i of node 2
FeedersOf(i) ==
    {k \in 1..Len(connections) :
        connections[k].targetNodeId = 2 /\ connections[k].targetPortId = nodes[2].inputs[i].id}

\* the output port of node 1 a connection starts at
SourcePortOf(c) ==
    nodes[1].outputs[CHOOSE o \in 1..Len(nodes[1].outputs) : nodes[1].outputs[o].id = c.sourcePortId]

IsBundle(v) == v.t = "object"

\* C22: getNodeInputs gives each connected input port whose source has a result the field
\* of that result named like the port when the result is a bundle with such a field, and
\* the raw result otherwise; an unconnected port, or one whose source has no result,
\* gets no entry.
C22_PortValues ==
    probe.done =>
        \A i \in 1..Len(nodes[2].inputs) :
            LET port == nodes[2].inputs[i]
                r    == MapGet(probe.args.nodeResults, 1)
            IN  IF FeedersOf(i) = {} \/ probe.args.nodeResults = <<>>
                THEN ~MapHas(probe.result, port.id)
                ELSE /\ MapHas(probe.result, port.id)
                     /\ MapGet(probe.result, port.id) =
                            (IF IsBundle(r) /\ \E e \in 1..Len(r.a) : r.a[e].k = port.name
                             THEN r.a[CHOOSE e \in 1..Len(r.a) : r.a[e].k = port.name].v
                             ELSE r)

\* the images input of a compare-grid node fed by a compare-grid node has received the
\* images field of its bundle
C22_Witness ==
    /\ probe.done
    /\ nodes[1].type = "COMPARE_GRID"
    /\ nodes[2].type = "COMPARE_GRID"
    /\ FeedersOf(1) # {}
    /\ IsBundle(MapGet(probe.args.nodeResults, 1))
    /\ MapGet(probe.result, nodes[2].inputs[1].id) =
           Arr(<<Str(Chars("data:i")), Str(Chars("data:j"))>>)

\* C24 as stated: an input connected to a named output of a producer that returns a
\* bundle (analyze, compare grid) receives the field of the bundle named like that
\* output, whatever the name of the consuming input port.
C24_Original ==
    probe.done =>
        \A i \in 1..Len(nodes[2].inputs) :
            \A k \in FeedersOf(i) :
                LET r == MapGet(probe.args.nodeResults, 1)
                IN  IsBundle(r) =>
                       MapGet(probe.result, nodes[2].inputs[i].id) =
                          MapGet(r.a, SourcePortOf(connections[k]).name)
\* C23 as stated: hashInputs always returns a digest, falling back to a digest over type
\* and config when the full text cannot be encoded, so with caching enabled no node
\* fails a run because of the hash computation.
C23_Original ==
    engine.useCache =>
        /\ \A i \in 1..Len(nodes) : nodes[i].error # BtoaErrorMessage
        /\ \A i \in 1..Len(engine.nodes) :
              executionResult # Failure(<<"Failed at ", engine.nodes[i].type, ": ">>
                                        \o BtoaErrorMessage)
\* C25 as stated: a run changes nothing in a node's configuration except the cache flag,
\* so an edit of a node's configuration made while a run is in flight is still there
\* once the run has ended.
C25_Original ==
    (probe.done /\ probe.args.running /\ ~isExecuting) =>
        ConfigGet(NodeById(nodes, probe.args.nodeId).config, probe.args.key) = probe.args.value
\* the value node id produced in this run is not the one it reported in the run before
ProducedAnew(id) == displayResult(MapGet(engine.nodeResults, id)) # ResultBefore(id)

\* C26 as stated: with caching enabled, when the value an upstream node produces has
\* changed between two runs, every node downstream of it misses the cache in the second
\* run and is executed again, on the new value.
C26_Original ==
    (SecondCachedRunEnded /\ executionResult = Success) =>
        \A i, j \in 1..Len(engine.nodes) :
            LET up   == engine.nodes[i]
                down == engine.nodes[j]
            IN  (Reaches(engine.connections, up.id, down.id) /\ ProducedAnew(up.id)) =>
                    /\ [id |-> down.id, hit |-> TRUE] \notin Range(trace.gets)
                    /\ Count(trace.executor, down.id) = 1
\* the positions in trace.events at which a backend call of the batch failed
ThrowEvents == {p \in 1..Len(trace.events) : trace.events[p].kind = "throw"}

\* C28: once a backend call of a batch-generate chunk has failed, the node has failed with
\* that error and status error, the run has been aborted with the failure reported, no
\* call of a later chunk was or is dispatched, and no image array, partial or whole, is
\* the node's result, in the engine, on the canvas or in the cache.
C28_ChunkFailure ==
    ThrowEvents # {} =>
        LET L == NumberOf(ConfigGet(BatchNode.config, "parallelLimit"))
        IN  /\ Cardinality(ThrowEvents) = 1
            /\ engine.pc = "done"
            /\ ~isExecuting
            /\ executionResult = Failure(<<"Failed at ", "BATCH_GENERATE", ": ">> \o BackendError)
            /\ BatchNode.status = "error"
            /\ BatchNode.error = BackendError
            /\ BatchNode.result = Undefined
            /\ ~MapHas(engine.nodeResults, BatchNode.id)
            /\ ~MapHas(cache.map, BatchNode.id)
            /\ ~MapHas(cache.stored, BatchNode.id)
            /\ BatchNode.id \notin Range(trace.sets)
            /\ InFlight = {}
            /\ \A p \in ThrowEvents :
                  \A q \in 1..Len(trace.events) :
                      trace.events[q].kind = "dispatch" =>
                          /\ q < p
                          /\ ChunkOf(trace.events[q].index, L) <= ChunkOf(trace.events[p].index, L)

\* five prompts at limit 2: the first chunk returned two images, then the first call of
\* the second chunk failed while the other one was still in flight; the fifth prompt was
\* never sent
C28_Witness ==
    /\ Len(GivenPrompts) = 5
    /\ NumberOf(ConfigGet(BatchNode.config, "parallelLimit")) = 2
    /\ Len(engine.batch.results) = 2
    /\ EventsAt("throw", 3) # {}
    /\ EventsAt("dispatch", 4) # {}
    /\ EventsAt("return", 4) = {}
    /\ EventsAt("dispatch", 5) = {}
    /\ \E k \in 1..Len(backend.pending) : backend.pending[k].orphan
    /\ BatchNode.status = "error"
\* the node was executed in this run and its execution succeeded
ExecutedWithSuccess(id) ==
    /\ Count(trace.executor, id) = 1
    /\ \E k \in 1..Len(trace.updates) :
          /\ trace.updates[k].id = id
          /\ trace.updates[k].status = "complete"
          /\ trace.updates[k].cached = False

\* C30: the cache is written only after a successful execution that was not a cache hit.
\* A run with caching disabled neither reads nor changes the cache, in memory or
\* persisted; a node that hit the cache or whose execution failed has written nothing,
\* and every entry that differs from the one held when the run was requested belongs to
\* a node executed with success in this run.
C30_WrittenOnSuccess ==
    engine.pc # "none" =>
        /\ ~engine.useCache =>
              /\ cache = before.cache
              /\ trace.gets = <<>>
              /\ trace.sets = <<>>
        /\ \A i \in 1..Len(engine.nodes) :
              LET id == engine.nodes[i].id
              IN  /\ Count(trace.sets, id) <= 1
                  /\ id \in Range(trace.sets) =>
                        /\ ExecutedWithSuccess(id)
                        /\ [id |-> id, hit |-> TRUE] \notin Range(trace.gets)
                  /\ id \notin Range(trace.sets) =>
                        /\ MapHas(cache.map, id) = MapHas(before.cache.map, id)
                        /\ MapGet(cache.map, id) = MapGet(before.cache.map, id)
                        /\ MapHas(cache.stored, id) = MapHas(before.cache.stored, id)
                        /\ MapGet(cache.stored, id) = MapGet(before.cache.stored, id)
                  /\ ([id |-> id, hit |-> TRUE] \in Range(trace.gets)
                         \/ NodeById(nodes, id).status = "error") =>
                        id \notin Range(trace.sets)
        /\ Len(trace.sets) = 0 => cache = before.cache

\* the second run, with caching on, has ended in a failure after a cache hit: one node
\* was served from the cache, another was executed and failed, and the cache, which holds
\* an entry, is as it was when the run was requested
C30_Witness ==
    /\ before.runs = 2
    /\ engine.useCache
    /\ engine.pc = "done"
    /\ \E i \in 1..Len(nodes) : [id |-> nodes[i].id, hit |-> TRUE] \in Range(trace.gets)
    /\ \E i \in 1..Len(nodes) :
          nodes[i].status = "error" /\ Count(trace.executor, nodes[i].id) = 1
    /\ cache.map # <<>>
    /\ cache = before.cache
\* C29 as stated: every call of execute ends with an ExecutionResult after finitely many
\* steps, for every graph and every node configuration, a zero, negative or oversized
\* parallel limit included, provided each backend call returns or throws.
C29_Original == isExecuting ~> (~isExecuting /\ executionResult.set)

====
